---- MODULE Spec2Model ----
(***************************************************************************)
(* Lesson content cache, completion cache, the admin lesson routes and the *)
(* authentication routes of the course platform                            *)
(* (services/lesson_service.py, routers/lessons.py,                        *)
(* routers/admin/lesson_admin.py, auth/, db/models.py).                    *)
(*                                                                         *)
(* Python values are modelled as follows, so that every value a variable   *)
(* may hold can be compared with every other one:                          *)
(*   None            the empty tuple <<>>                                  *)
(*   a str           a non-empty tuple of tokens; "" is <<"">>, the text   *)
(*                   "v1:lesson:L1" is <<"v1", ":", "lesson", ":", "L1">>  *)
(*   a dict          a record                                              *)
(*   a bool          the tuple <<"True">> or <<"False">>                   *)
(***************************************************************************)
EXTENDS Integers, Sequences, FiniteSets, TLC

VARIABLES
    lessons,        \* table lessons: lesson id -> row, or None
    courses,        \* table courses: course id -> row, or None
    completions,    \* table lesson_completions: a set of rows
    files,          \* video files present in the file storage
    redis_store,    \* the key-value store: key -> [value, ex]
    redis_up,       \* whether the key-value store answers
    fk_enforced,    \* whether the database enforces foreign keys
    last,           \* the request handled last, with its outcome
    prev,           \* the request handled before it
    tasks,          \* requests in flight between two suspension points
    issued,         \* the ids uuid4 has produced so far
    nreq,           \* the number of requests handled so far
    budget,         \* the number of requests a run handles at most
    commit_ok,      \* whether the database carries out a commit
    users,          \* table users: a set of rows
    held,           \* the access tokens handed out to clients so far
    now,            \* the clock, in seconds
    ticks,          \* the number of times the clock has advanced
    revoked,        \* the logouts so far: the token, the time, the store
    notes,          \* table notes: a set of rows
    sessions        \* the database sessions get_db has made so far

vars == <<lessons, courses, completions, files, redis_store, redis_up,
          fk_enforced, last, prev, tasks, issued, nreq, budget, commit_ok,
          users, held, now, ticks, revoked, notes, sessions>>

db_vars == <<lessons, courses, completions>>

\* what the lesson routes and the lesson administration leave alone
auth_vars == <<users, held, now, ticks, revoked, notes, sessions>>

-----------------------------------------------------------------------------
(* Bounds of the model *)

MaxRequests == 3
MaxContentRequests == 4
MaxTasks == 2
MaxCorruptRequests == 2
MaxCommitRequests == 3
MaxTtlRequests == 2
MaxRegisterRequests == 3
MaxAuthRequests == 3
MaxAdvances == 2
MaxRaceRequests == 3
MaxSessionRequests == 3
MaxCourseRequests == 3
MaxAdminRequests == 5
MaxNoteRequests == 3
MaxProfileRequests == 3
MaxRefreshRequests == 3
LessonName == <<"L1", "L2">>
LessonIds == {"L1", "L2"}
UserIds == {"U1", "U2"}
CourseIds == {"C1"}
CourseName == <<"C1", "C2">>
CourseUuids == {"C1", "C2"}
NoteName == <<"N1", "N2">>
NoteIds == {"N1", "N2"}
NoteContents == {<<"x">>, <<"y">>}
\* the lesson forms an admin submits: title, text_content, video file name
Forms == {<< <<"a">>, <<"hi">>, <<>> >>,
          << <<"b">>, <<"">>, <<>> >>,
          << <<"b">>, <<"hi">>, <<"f.mp4">> >>}
\* the e-mail addresses and passwords typed into the forms
EmailInputs == {<<"a">>, <<"A", " ">>, <<"b">>}
PasswordInputs == {<<"p">>, <<"q">>}
\* texts another writer may leave under the cache key of a lesson: no JSON,
\* a JSON string, null, and objects that lack one of the three keys
CorruptValues ==
    {<<"{">>,
     <<"\"", "x", "\"">>,
     <<"null">>,
     <<"{", "\"", "lesson", "\"", ":", "null", "}">>,
     <<"{", "\"", "lesson", "\"", ":", "null", ",",
       "\"", "course", "\"", ":", "null", "}">>,
     <<"{", "\"", "course", "\"", ":", "null", ",",
       "\"", "text_html", "\"", ":", "null", "}">>}

-----------------------------------------------------------------------------
(* Python values *)

None == <<>>

Str(s) == <<s>>

Truthy(v) == v # None /\ v # <<"">>

True == <<"True">>

False == <<"False">>

Bool(b) == IF b THEN True ELSE False

\* in place of a return value: the call raised an exception
Raised == <<"Raised">>

\* f-string concatenation; the empty string contributes no characters
Cat(a, b) ==
    IF a = <<"">> THEN b
    ELSE IF b = <<"">> THEN a
    ELSE a \o b

-----------------------------------------------------------------------------
(* Configuration and cache keys *)

CACHE_VERSION == <<"v1">>

CACHE_LESSON_EXPIRE_SECONDS == 3600

CACHE_COMPLETION_EXPIRE_SECONDS == 600

ACCESS_TOKEN_EXPIRE_MINUTES == 1

REFRESH_TOKEN_EXPIRE_DAYS == 30

\* the lengths of time that pass between two requests, in seconds: a
\* second, and a second less than the lifetime of an access token
Delays == {1, ACCESS_TOKEN_EXPIRE_MINUTES * 60 - 1}

\* the same between two requests for a lesson: the shorter of the two times
\* to live, and what the longer one exceeds it by
TtlDelays ==
    {CACHE_COMPLETION_EXPIRE_SECONDS,
     CACHE_LESSON_EXPIRE_SECONDS - CACHE_COMPLETION_EXPIRE_SECONDS}

get_lesson_cache_key(lesson_id) ==
    Cat(CACHE_VERSION, Cat(<<":", "lesson", ":">>, Str(lesson_id)))

get_completion_cache_key(user_id, lesson_id) ==
    Cat(CACHE_VERSION,
        Cat(<<":", "user", ":">>,
            Cat(Str(user_id),
                Cat(<<":", "lesson", ":">>,
                    Cat(Str(lesson_id), <<":", "completed">>)))))

\* the key function of the admin router
admin_get_lesson_cache_key(lesson_id) ==
    Cat(<<"lesson", ":">>, Str(lesson_id))

\* the key pattern of the admin router's delete_lesson
admin_completion_pattern(lesson_id) ==
    Cat(<<"user", ":", "*", ":", "lesson", ":">>,
        Cat(Str(lesson_id), <<":", "completed">>))

-----------------------------------------------------------------------------
(* The key-value store client (module redis_client): an asynchronous       *)
(* client whose get, setex, delete and keys are coroutine functions.       *)
(* The operators give what an awaited call does to a reachable store s.    *)

redis_get(s, key) == IF key \in DOMAIN s THEN s[key].value ELSE None

redis_setex(s, key, ex, value) ==
    [k \in (DOMAIN s) \cup {key} |->
        IF k = key THEN [value |-> value, ex |-> ex] ELSE s[k]]

redis_delete(s, keys) == [k \in (DOMAIN s) \ keys |-> s[k]]

redis_exists(s, key) == IF key \in DOMAIN s THEN 1 ELSE 0

\* an entry written by set has no expiry: its time to live reads -1
redis_set(s, key, value) ==
    [k \in (DOMAIN s) \cup {key} |->
        IF k = key THEN [value |-> value, ex |-> -1] ELSE s[k]]

RECURSIVE GlobMatch(_, _)
\* the glob matching of KEYS: the pattern covers the whole key, "*" stands
\* for any run of characters
GlobMatch(pattern, key) ==
    IF pattern = <<>> THEN key = <<>>
    ELSE IF Head(pattern) = "*"
         THEN \/ GlobMatch(Tail(pattern), key)
              \/ key # <<>> /\ GlobMatch(pattern, Tail(key))
         ELSE /\ key # <<>>
              /\ Head(key) = Head(pattern)
              /\ GlobMatch(Tail(pattern), Tail(key))

redis_keys(s, pattern) == {k \in DOMAIN s : GlobMatch(pattern, k)}

-----------------------------------------------------------------------------
(* json.dumps and json.loads on the text of a cache entry *)

LessonKeys == <<"id", "title", "text_content", "video_url", "course_id">>
CourseKeys == <<"id", "title">>

\* a str or None as JSON text
JsonAtom(v) ==
    IF v = None THEN <<"null">> ELSE <<"\"">> \o Cat(v, <<"\"">>)

RECURSIVE JsonJoin(_, _)
JsonJoin(members, i) ==
    IF i > Len(members) THEN <<>>
    ELSE JsonAtom(Str(members[i][1])) \o <<":">> \o members[i][2]
         \o (IF i < Len(members) THEN <<",">> ELSE <<>>)
         \o JsonJoin(members, i + 1)

\* members: a sequence of <<name, text of the value>>, in insertion order
JsonObject(members) == <<"{">> \o JsonJoin(members, 1) \o <<"}">>

JsonDict(d, keys) ==
    JsonObject([i \in 1..Len(keys) |-> <<keys[i], JsonAtom(d[keys[i]])>>])

json_dumps(payload) ==
    JsonObject(<< <<"lesson", JsonDict(payload.lesson, LessonKeys)>>,
                  <<"course", JsonDict(payload.course, CourseKeys)>>,
                  <<"text_html", JsonAtom(payload.text_html)>> >>)

ParseFail == [ok |-> FALSE, kind |-> "error", val |-> None, next |-> 0]

ParseString(t, i) ==
    IF i > Len(t) \/ t[i] # "\"" THEN ParseFail
    ELSE LET closing == {j \in (i + 1)..Len(t) : t[j] = "\""}
         IN  IF closing = {} THEN ParseFail
             ELSE LET j == CHOOSE c \in closing : \A d \in closing : c <= d
                  IN  [ok |-> TRUE, kind |-> "str",
                       val |-> IF j = i + 1 THEN <<"">>
                               ELSE SubSeq(t, i + 1, j - 1),
                       next |-> j + 1]

\* the dict of a sequence of <<key, value>> pairs; a repeated key keeps
\* its last value
DictOf(pairs) ==
    [k \in {pairs[n][1] : n \in 1..Len(pairs)} |->
        LET n == CHOOSE m \in 1..Len(pairs) :
                    /\ pairs[m][1] = k
                    /\ \A o \in 1..Len(pairs) : pairs[o][1] = k => o <= m
        IN  pairs[n][2]]

RECURSIVE ParseValue(_, _)
RECURSIVE ParseMembers(_, _, _)

ParseValue(t, i) ==
    IF i > Len(t) THEN ParseFail
    ELSE IF t[i] = "null"
         THEN [ok |-> TRUE, kind |-> "null", val |-> None, next |-> i + 1]
    ELSE IF t[i] = "\"" THEN ParseString(t, i)
    ELSE IF t[i] = "{"
         THEN IF i + 1 <= Len(t) /\ t[i + 1] = "}"
              THEN [ok |-> TRUE, kind |-> "dict", val |-> DictOf(<<>>),
                    next |-> i + 2]
              ELSE ParseMembers(t, i + 1, <<>>)
    ELSE ParseFail

ParseMembers(t, i, acc) ==
    LET key == ParseString(t, i)
    IN  IF ~key.ok \/ key.next > Len(t) \/ t[key.next] # ":"
        THEN ParseFail
        ELSE LET v == ParseValue(t, key.next + 1)
                 pairs == Append(acc, <<key.val[1], v.val>>)
             IN  IF ~v.ok \/ v.next > Len(t) THEN ParseFail
                 ELSE IF t[v.next] = ","
                      THEN ParseMembers(t, v.next + 1, pairs)
                 ELSE IF t[v.next] = "}"
                      THEN [ok |-> TRUE, kind |-> "dict",
                            val |-> DictOf(pairs), next |-> v.next + 1]
                 ELSE ParseFail

\* ok = FALSE stands for json.JSONDecodeError
json_loads(text) ==
    LET v == ParseValue(text, 1)
    IN  IF v.ok /\ v.next = Len(text) + 1 THEN v ELSE ParseFail

-----------------------------------------------------------------------------
(* markdown.markdown on the texts of the model: the empty text renders to *)
(* the empty text, a line of text to a paragraph                           *)

markdown(text) ==
    IF text = <<"">> THEN <<"">> ELSE <<"<p>">> \o text \o <<"</p>">>

-----------------------------------------------------------------------------
(* services/lesson_service.py *)

\* a slip: the query without its filter, first() yields any lesson
select_lesson_nofilter(lesson_id) ==
    IF lessons[lesson_id] # None THEN lessons[lesson_id]
    ELSE IF \E l \in LessonIds : lessons[l] # None
         THEN lessons[CHOOSE l \in LessonIds : lessons[l] # None]
         ELSE None

\* select(models.Lesson).filter(models.Lesson.id == lesson_id), first()
select_lesson(lesson_id) == lessons[lesson_id]

fetch_lesson_from_db(lesson_id) ==
    LET lesson_obj == select_lesson(lesson_id)
    IN  IF lesson_obj = None THEN <<None, None, None>>
        ELSE LET video_url ==
                     IF Truthy(lesson_obj.video_path)
                     THEN Cat(<<"/">>, lesson_obj.video_path)
                     ELSE None
                 lesson ==
                     [id |-> Str(lesson_id),
                      title |-> lesson_obj.title,
                      text_content |->
                          IF Truthy(lesson_obj.text_content)
                          THEN lesson_obj.text_content ELSE <<"">>,
                      video_url |-> video_url,
                      course_id |-> Str(lesson_obj.course_id)]
                 course ==
                     [id |-> Str(lesson_obj.course_id),
                      title |-> courses[lesson_obj.course_id].title]
                 text_html == markdown(lesson.text_content)
             IN  <<lesson, course, text_html>>

\* a slip: the bundle written with set, which gives the entry no expiry
cache_lesson_data_noexpiry(s, up, cache_key, lesson, course, text_html) ==
    IF up
    THEN LET payload == [lesson |-> lesson, course |-> course,
                         text_html |-> text_html]
         IN  redis_set(s, cache_key, json_dumps(payload))
    ELSE s

\* the store after the call; a failing setex is logged and ignored
cache_lesson_data(s, up, cache_key, lesson, course, text_html) ==
    IF up
    THEN LET payload == [lesson |-> lesson, course |-> course,
                         text_html |-> text_html]
         IN  redis_setex(s, cache_key, CACHE_LESSON_EXPIRE_SECONDS,
                         json_dumps(payload))
    ELSE s

\* a slip: an object with the key "lesson" is a hit, a key it lacks reads
\* as None
read_lesson_cache_lenient(s, up, cache_key) ==
    LET miss == [hit |-> FALSE, result |-> <<None, None, None>>]
        field(d, k) == IF k \in DOMAIN d THEN d[k] ELSE None
    IN  IF ~up THEN miss
        ELSE LET cached == redis_get(s, cache_key)
             IN  IF ~Truthy(cached) THEN miss
                 ELSE LET data == json_loads(cached)
                      IN  IF data.ok /\ data.kind = "dict"
                             /\ "lesson" \in DOMAIN data.val
                          THEN [hit |-> TRUE,
                                result |-> <<field(data.val, "lesson"),
                                             field(data.val, "course"),
                                             field(data.val, "text_html")>>]
                          ELSE miss

\* what the try block of get_lesson_data yields: hit = TRUE with the triple
\* of the entry, or hit = FALSE (no entry, a rejected entry, or an error)
read_lesson_cache(s, up, cache_key) ==
    LET miss == [hit |-> FALSE, result |-> <<None, None, None>>]
    IN  IF ~up THEN miss
        ELSE LET cached == redis_get(s, cache_key)
             IN  IF ~Truthy(cached) THEN miss
                 ELSE LET data == json_loads(cached)
                      IN  IF ~data.ok THEN miss
                          ELSE IF data.kind = "dict"
                                  /\ "lesson" \in DOMAIN data.val
                               THEN IF {"course", "text_html"}
                                           \subseteq DOMAIN data.val
                                    THEN [hit |-> TRUE,
                                          result |-> <<data.val["lesson"],
                                                       data.val["course"],
                                                       data.val["text_html"]>>]
                                    ELSE miss
                               ELSE miss

get_lesson_data(s, up, lesson_id) ==
    LET cache_key == get_lesson_cache_key(lesson_id)
        cached == read_lesson_cache(s, up, cache_key)
        seen == IF up THEN redis_get(s, cache_key) ELSE None
    IN  IF cached.hit
        THEN [store |-> s, result |-> cached.result, source |-> "cache",
              seen |-> seen]
        ELSE LET row == fetch_lesson_from_db(lesson_id)
             IN  [seen |-> seen,
                  store |-> IF row[1] # None
                            THEN cache_lesson_data(s, up, cache_key,
                                                   row[1], row[2], row[3])
                            ELSE s,
                  result |-> row,
                  source |-> "db"]

\* a slip: the filter without the user
select_completion_anyuser(rows, user_id, lesson_id) ==
    {r \in rows : r.lesson_id = lesson_id}

\* select(models.LessonCompletion).filter_by(user_id=..., lesson_id=...)
select_completion(rows, user_id, lesson_id) ==
    {r \in rows : r.user_id = user_id /\ r.lesson_id = lesson_id}

\* a slip: a cache error answers False instead of asking the database
is_lesson_completed_nofallback(s, up, rows, lesson_id, user_id) ==
    LET cache_key == get_completion_cache_key(user_id, lesson_id)
        cached_status == IF up THEN redis_get(s, cache_key) ELSE None
        completed == select_completion(rows, user_id, lesson_id) # {}
    IN  IF ~up THEN [store |-> s, result |-> False, source |-> "db"]
        ELSE IF cached_status # None
        THEN [store |-> s, result |-> Bool(cached_status = <<"true">>),
              source |-> "cache"]
        ELSE [store |-> redis_setex(s, cache_key,
                                    CACHE_COMPLETION_EXPIRE_SECONDS,
                                    IF completed THEN <<"true">>
                                    ELSE <<"false">>),
              result |-> Bool(completed), source |-> "db"]

is_lesson_completed(s, up, rows, lesson_id, user_id) ==
    LET cache_key == get_completion_cache_key(user_id, lesson_id)
        cached_status == IF up THEN redis_get(s, cache_key) ELSE None
    IN  IF cached_status # None
        THEN [store |-> s, result |-> Bool(cached_status = <<"true">>),
              source |-> "cache"]
        ELSE LET completed ==
                     select_completion(rows, user_id, lesson_id) # {}
             IN  [store |-> IF up
                            THEN redis_setex(
                                     s, cache_key,
                                     CACHE_COMPLETION_EXPIRE_SECONDS,
                                     IF completed THEN <<"true">>
                                     ELSE <<"false">>)
                            ELSE s,
                  result |-> Bool(completed),
                  source |-> "db"]

\* the primary key of a new row: a value no row carries
new_id(rows) ==
    CHOOSE i \in 1..(Cardinality(rows) + 1) : \A r \in rows : r.id # i

LessonCompletion(rows, lesson_id, user_id) ==
    [id |-> new_id(rows), lesson_id |-> lesson_id, user_id |-> user_id]

\* a slip: the completion flag is not written after the commit
mark_lesson_completed_nosetex(s, up, rows, lesson_id, user_id, ok) ==
    IF select_lesson(lesson_id) = None
    THEN [rows |-> rows, store |-> s, result |-> None]
    ELSE IF select_completion(rows, user_id, lesson_id) # {}
    THEN [rows |-> rows, store |-> s, result |-> False]
    ELSE IF ~ok
    THEN [rows |-> rows, store |-> s, result |-> Raised]
    ELSE LET completion == LessonCompletion(rows, lesson_id, user_id)
             lesson_cache_key == get_lesson_cache_key(lesson_id)
         IN  [rows |-> rows \cup {completion},
              store |-> IF up THEN redis_delete(s, {lesson_cache_key})
                        ELSE s,
              result |-> True]

\* a slip: the cache steps run before the commit
mark_lesson_completed_cachefirst(s, up, rows, lesson_id, user_id, ok) ==
    IF select_lesson(lesson_id) = None
    THEN [rows |-> rows, store |-> s, result |-> None]
    ELSE IF select_completion(rows, user_id, lesson_id) # {}
    THEN [rows |-> rows, store |-> s, result |-> False]
    ELSE LET completion == LessonCompletion(rows, lesson_id, user_id)
             cache_key == get_completion_cache_key(user_id, lesson_id)
             lesson_cache_key == get_lesson_cache_key(lesson_id)
             s1 == IF up
                   THEN redis_setex(s, cache_key,
                                    CACHE_COMPLETION_EXPIRE_SECONDS,
                                    <<"true">>)
                   ELSE s
             s2 == IF up THEN redis_delete(s1, {lesson_cache_key}) ELSE s1
         IN  [rows |-> IF ok THEN rows \cup {completion} ELSE rows,
              store |-> s2,
              result |-> IF ok THEN True ELSE Raised]

\* a slip: the content entries of all lessons are deleted, not only the
\* one of the completed lesson
mark_lesson_completed_flush(s, up, rows, lesson_id, user_id, ok) ==
    IF select_lesson(lesson_id) = None
    THEN [rows |-> rows, store |-> s, result |-> None]
    ELSE IF select_completion(rows, user_id, lesson_id) # {}
    THEN [rows |-> rows, store |-> s, result |-> False]
    ELSE IF ~ok
    THEN [rows |-> rows, store |-> s, result |-> Raised]
    ELSE LET completion == LessonCompletion(rows, lesson_id, user_id)
             cache_key == get_completion_cache_key(user_id, lesson_id)
             s1 == IF up
                   THEN redis_setex(s, cache_key,
                                    CACHE_COMPLETION_EXPIRE_SECONDS,
                                    <<"true">>)
                   ELSE s
             s2 == IF up
                   THEN redis_delete(s1, {get_lesson_cache_key(l) :
                                             l \in LessonIds})
                   ELSE s1
         IN  [rows |-> rows \cup {completion}, store |-> s2,
              result |-> True]

\* ok tells whether the commit is carried out; one that fails raises, and
\* the session is closed without the new row
mark_lesson_completed(s, up, rows, lesson_id, user_id, ok) ==
    IF select_lesson(lesson_id) = None
    THEN [rows |-> rows, store |-> s, result |-> None]
    ELSE IF select_completion(rows, user_id, lesson_id) # {}
    THEN [rows |-> rows, store |-> s, result |-> False]
    ELSE IF ~ok
    THEN [rows |-> rows, store |-> s, result |-> Raised]
    ELSE LET completion == LessonCompletion(rows, lesson_id, user_id)
             cache_key == get_completion_cache_key(user_id, lesson_id)
             lesson_cache_key == get_lesson_cache_key(lesson_id)
             s1 == IF up
                   THEN redis_setex(s, cache_key,
                                    CACHE_COMPLETION_EXPIRE_SECONDS,
                                    <<"true">>)
                   ELSE s
             s2 == IF up THEN redis_delete(s1, {lesson_cache_key}) ELSE s1
         IN  [rows |-> rows \cup {completion}, store |-> s2,
              result |-> True]

-----------------------------------------------------------------------------
(* routers/admin/file_utils.py *)

save_path_of(filename) == Cat(<<"static/videos", "/">>, filename)

save_upload_file(fs, destination) == fs \cup {destination}

delete_file_async(fs, path) == fs \ {path}

-----------------------------------------------------------------------------
(* auth/security.py, auth/cookies.py, auth/utils.py, auth/dependencies.py  *)

\* str.lower() on the letters of the model
lower(s) ==
    [i \in DOMAIN s |->
        IF s[i] = "A" THEN "a" ELSE IF s[i] = "B" THEN "b" ELSE s[i]]

RECURSIVE lstrip(_)
lstrip(s) == IF s # <<>> /\ Head(s) = " " THEN lstrip(Tail(s)) ELSE s

RECURSIVE rstrip(_)
rstrip(s) ==
    IF s # <<>> /\ s[Len(s)] = " " THEN rstrip(SubSeq(s, 1, Len(s) - 1))
    ELSE s

\* str.strip(); a string of blanks only becomes the empty string
strip(s) ==
    LET t == rstrip(lstrip(s)) IN IF t = <<>> THEN <<"">> ELSE t

\* passlib's bcrypt: the hash of a password, the salt left out
get_password_hash(password) == Cat(<<"$2b$">>, password)

verify_password(plain_password, hashed_password) ==
    hashed_password = get_password_hash(plain_password)

\* the lifetime of an access token and of a blacklist entry, in seconds
ACCESS_TOKEN_EXPIRE_SECONDS == ACCESS_TOKEN_EXPIRE_MINUTES * 60

REFRESH_TOKEN_EXPIRE_SECONDS == REFRESH_TOKEN_EXPIRE_DAYS * 24 * 60 * 60

\* the numbers a token of the model can carry as iat or exp
NumericDates ==
    LET instants == 0..(MaxAdvances * ACCESS_TOKEN_EXPIRE_SECONDS)
    IN  instants
        \cup {t + ACCESS_TOKEN_EXPIRE_SECONDS : t \in instants}
        \cup {t + REFRESH_TOKEN_EXPIRE_SECONDS : t \in instants}

\* jose's jwt.encode: the claims and a signature made with SECRET_KEY,
\* joined by "."
jwt_encode(claims) ==
    <<"jwt", ".">> \o claims.sub
        \o <<".", ToString(claims.exp), ".", ToString(claims.iat), ".",
             "sig">>

RECURSIVE Split(_, _)
\* the parts of a text between the separators
Split(text, sep) ==
    IF \A i \in DOMAIN text : text[i] # sep THEN <<text>>
    ELSE LET i == CHOOSE j \in DOMAIN text :
                      text[j] = sep /\ \A k \in 1..(j - 1) : text[k] # sep
         IN  <<SubSeq(text, 1, i - 1)>>
                 \o Split(SubSeq(text, i + 1, Len(text)), sep)

JWTError == [ok |-> FALSE, sub |-> None]

\* jose's jwt.decode at the instant t: the signature and the shape are
\* verified, a token whose exp lies before t is refused
jwt_decode(token, t) ==
    LET parts == Split(token, ".")
    IN  IF Len(parts) # 5 \/ parts[1] # <<"jwt">> \/ parts[5] # <<"sig">>
           \/ Len(parts[3]) # 1 \/ Len(parts[4]) # 1
           \/ \A n \in NumericDates : ToString(n) # parts[3][1]
        THEN JWTError
        ELSE LET exp == CHOOSE n \in NumericDates :
                            ToString(n) = parts[3][1]
             IN  IF exp < t THEN JWTError
                 ELSE [ok |-> TRUE,
                       sub |-> IF parts[2] = <<>> THEN <<"">>
                               ELSE parts[2]]

create_access_token(data, t) ==
    jwt_encode([sub |-> data.sub, exp |-> t + ACCESS_TOKEN_EXPIRE_SECONDS,
                iat |-> t])

\* auth.security.create_refresh_token: a token like the access token, with
\* the lifetime of the refresh cookie
create_refresh_token(data, t) ==
    jwt_encode([sub |-> data.sub, exp |-> t + REFRESH_TOKEN_EXPIRE_SECONDS,
                iat |-> t])

blacklist_key(token) == Cat(<<"blacklist", ":">>, token)

\* a slip: the token is not written to the blacklist
add_to_blacklist_never(s, up, token) == s

\* a failing setex is logged and ignored
add_to_blacklist(s, up, token) ==
    IF up
    THEN redis_setex(s, blacklist_key(token), ACCESS_TOKEN_EXPIRE_SECONDS,
                     <<"1">>)
    ELSE s

\* a failing exists is logged and answers False
is_token_blacklisted(s, up, token) ==
    IF up THEN redis_exists(s, blacklist_key(token)) = 1 ELSE FALSE

\* decode_token(token, raise_exc=False): the e-mail of the token, or None
decode_token(s, up, token, t) ==
    IF ~Truthy(token) THEN None
    ELSE IF is_token_blacklisted(s, up, token) THEN None
    ELSE LET payload == jwt_decode(token, t)
         IN  IF ~payload.ok THEN None
             ELSE IF ~Truthy(payload.sub) THEN None
             ELSE payload.sub

\* models.User with the defaults of its columns; of the columns, the ones
\* the routes of the model read
User(email, hashed_password) ==
    [email |-> email, hashed_password |-> hashed_password,
     is_admin |-> FALSE]

\* a slip: the column email without its unique index
insert_user_nounique(rows, row) == [ok |-> TRUE, rows |-> rows \cup {row}]

\* INSERT INTO users: the unique index on email refuses a second row with
\* an e-mail the table holds
insert_user(rows, row) ==
    IF \E u \in rows : u.email = row.email
    THEN [ok |-> FALSE, rows |-> rows]
    ELSE [ok |-> TRUE, rows |-> rows \cup {row}]

\* select(models.User).where(models.User.email == email), first()
select_user(rows, email) ==
    IF \E u \in rows : u.email = email
    THEN CHOOSE u \in rows : u.email = email
    ELSE None

\* a response: where it redirects to, the cookies it sets and deletes
RedirectResponse(url, status_code) ==
    [location |-> url, status |-> status_code, cookies |-> <<>>,
     deleted |-> {}]

set_cookie(response, key, value) ==
    [response EXCEPT !.cookies = (key :> value) @@ @]

delete_cookie(response, key) ==
    [response EXCEPT !.deleted = @ \cup {key}]

set_auth_cookie(response, token) ==
    set_cookie(response, "access_token", token)

set_refresh_cookie(response, token) ==
    set_cookie(response, "refresh_token", token)

clear_auth_cookie(response) == delete_cookie(response, "access_token")

clear_refresh_cookie(response) == delete_cookie(response, "refresh_token")

create_flash_error_redirect(url, message) ==
    set_cookie(RedirectResponse(url, 303), "flash_error", message)

\* the outcome of Depends(get_current_user): the row of the user, or the
\* redirect to the login page
get_current_user(s, up, rows, access_token, t) ==
    LET redirect == [user |-> None, status |-> 307,
                     location |-> Str("/auth/login")]
        email == decode_token(s, up, access_token, t)
    IN  IF ~Truthy(access_token) THEN redirect
        ELSE IF ~Truthy(email) THEN redirect
        ELSE IF select_user(rows, email) = None THEN redirect
        ELSE [user |-> select_user(rows, email), status |-> 200,
              location |-> None]

\* a slip: the password is not compared with the hash
authenticate_user_nopassword(rows, email, password, require_admin) ==
    LET normalized_email == strip(lower(email))
        user == select_user(rows, normalized_email)
    IN  IF user = None THEN [user |-> None, status |-> 401]
        ELSE IF require_admin /\ ~user.is_admin
        THEN [user |-> None, status |-> 403]
        ELSE [user |-> user, status |-> 200]

\* authenticate_user: the row of the user, or the HTTPException raised
authenticate_user(rows, email, password, require_admin) ==
    LET normalized_email == strip(lower(email))
        user == select_user(rows, normalized_email)
    IN  IF user = None THEN [user |-> None, status |-> 401]
        ELSE IF ~verify_password(password, user.hashed_password)
        THEN [user |-> None, status |-> 401]
        ELSE IF require_admin /\ ~user.is_admin
        THEN [user |-> None, status |-> 403]
        ELSE [user |-> user, status |-> 200]

\* auth.utils.create_auth_response: the access token only
utils_create_auth_response(user, redirect_url, t) ==
    set_auth_cookie(RedirectResponse(redirect_url, 303),
                    create_access_token([sub |-> user.email], t))

common_login_flow(rows, username, password, redirect_url, require_admin, t) ==
    LET r == authenticate_user(rows, username, password, require_admin)
    IN  IF r.status = 200
        THEN utils_create_auth_response(r.user, redirect_url, t)
        ELSE IF r.status = 403
        THEN create_flash_error_redirect(Str("/auth/login"),
                                         Str("no access to the admin"))
        ELSE create_flash_error_redirect(Str("/auth/login"),
                                         Str("wrong email or password"))

\* auth.routes.create_auth_response: access and refresh token
create_auth_response(user, redirect_url, t) ==
    set_refresh_cookie(
        set_auth_cookie(RedirectResponse(redirect_url, 303),
                        create_access_token([sub |-> user.email], t)),
        create_refresh_token([sub |-> user.email], t))

-----------------------------------------------------------------------------
(* The record of a handled request *)

(* result is what the service function returned or, for an admin route,   *)
(* what became of the row; source tells a cache hit from a database read;  *)
(* redis_ok tells whether the key-value store answered during the request; *)
(* seen is the text get_lesson_data read from the store.  The record of a  *)
(* request to an authentication route carries the e-mail and the token the *)
(* client sent, the redirect, the cookies set and deleted, and the time;   *)
(* the record of a login carries the password sent as well.                *)

Response(op, lesson_id, user_id, title, result, source, status) ==
    [op |-> op, lesson_id |-> lesson_id, user_id |-> user_id,
     title |-> title, result |-> result, source |-> source,
     status |-> status, redis_ok |-> redis_up, seen |-> None]

AuthResponse(op, email, token, response) ==
    [op |-> op, lesson_id |-> "", user_id |-> "", title |-> None,
     result |-> None, source |-> "", status |-> response.status,
     redis_ok |-> redis_up, seen |-> None, email |-> email,
     token |-> token, location |-> response.location,
     cookies |-> response.cookies, deleted |-> response.deleted,
     at |-> now, password |-> None]

NoRequest ==
    [op |-> "none", lesson_id |-> "", user_id |-> "", title |-> None,
     result |-> None, source |-> "", status |-> 0, redis_ok |-> TRUE,
     seen |-> None, email |-> None, token |-> None, location |-> None,
     cookies |-> <<>>, deleted |-> {}, at |-> 0, password |-> None]

\* a request in flight: the coroutine of a service function, suspended at
\* the await named by pc
Task(op, lesson_id, user_id, pc, result) ==
    [op |-> op, lesson_id |-> lesson_id, user_id |-> user_id, pc |-> pc,
     result |-> result]

Idle == Task("idle", "", "", "idle", None)

\* POST /auth/register in flight, suspended at the commit
RegisterTask(email, normalized_email, password) ==
    [op |-> "register_form", lesson_id |-> "", user_id |-> "",
     pc |-> "commit", result |-> None, email |-> email,
     normalized_email |-> normalized_email, password |-> password]

NoTasks == \A t \in DOMAIN tasks : tasks[t] = Idle

Record(resp) ==
    /\ nreq < budget
    /\ nreq' = nreq + 1
    /\ budget' = budget
    /\ last' = resp
    /\ prev' = last

-----------------------------------------------------------------------------
(* Initial state: a platform with one course and its first lesson, and an *)
(* empty key-value store.  The database is PostgreSQL, which enforces the  *)
(* foreign keys of the models, or the SQLite database of                   *)
(* tests/conftest.py, which does not.  The table users holds the           *)
(* administrator that create_admin.py creates.                             *)

Start(max_requests) ==
    /\ lessons = [l \in LessonIds |->
                     IF l = "L1"
                     THEN [course_id |-> "C1", title |-> <<"a">>,
                           text_content |-> <<"hi">>, video_path |-> None]
                     ELSE None]
    /\ courses = [c \in CourseUuids |->
                     IF c \in CourseIds THEN [title |-> <<"a">>] ELSE None]
    /\ completions = {}
    /\ files = {}
    /\ redis_store = <<>>
    /\ redis_up = TRUE
    /\ fk_enforced \in BOOLEAN
    /\ last = NoRequest
    /\ prev = NoRequest
    /\ tasks = [t \in 1..MaxTasks |-> Idle]
    /\ issued = {"L1", "C1"}
    /\ nreq = 0
    /\ budget = max_requests
    /\ commit_ok = TRUE
    /\ users = {[email |-> <<"a">>,
                 hashed_password |-> get_password_hash(<<"p">>),
                 is_admin |-> TRUE]}
    /\ held = {}
    /\ now = 0
    /\ ticks = 0
    /\ revoked = {}
    /\ notes = {}
    /\ sessions = {}

Init == Start(MaxRequests)

InitContent == Start(MaxContentRequests)

InitCorrupt == Start(MaxCorruptRequests)

InitCommit == Start(MaxCommitRequests)

InitTtl == Start(MaxTtlRequests)

InitRegister == Start(MaxRegisterRequests)

InitAuth == Start(MaxAuthRequests)

InitRace == Start(MaxRaceRequests)

InitSession == Start(MaxSessionRequests)

InitCourse == Start(MaxCourseRequests)

InitAdmin == Start(MaxAdminRequests)

InitNotes == Start(MaxNoteRequests)

InitProfile == Start(MaxProfileRequests)

InitRefresh == Start(MaxRefreshRequests)

-----------------------------------------------------------------------------
(* routers/lessons.py: each handler runs from request to response *)

lesson_page(lesson_id) ==
    LET r == get_lesson_data(redis_store, redis_up, lesson_id)
    IN  /\ NoTasks
        /\ redis_store' = r.store
        /\ Record([Response("get_lesson_data", lesson_id, "", None,
                            r.result, r.source,
                            IF r.result[1] = None THEN 404 ELSE 200)
                       EXCEPT !.seen = r.seen])
        /\ UNCHANGED <<db_vars, files, redis_up, fk_enforced, tasks, issued,
                       commit_ok, auth_vars>>

complete_lesson(lesson_id, user_id) ==
    LET r == mark_lesson_completed(redis_store, redis_up, completions,
                                   lesson_id, user_id, commit_ok)
    IN  /\ NoTasks
        /\ completions' = r.rows
        /\ redis_store' = r.store
        /\ Record(Response("mark_lesson_completed", lesson_id, user_id,
                           None, r.result, "db",
                           IF r.result = None THEN 404
                           ELSE IF r.result = Raised THEN 500
                           ELSE IF r.result = False THEN 400 ELSE 201))
        /\ UNCHANGED <<lessons, courses, files, redis_up, fk_enforced, tasks,
                       issued, commit_ok, auth_vars>>

lesson_completed_status(lesson_id, user_id) ==
    LET r == is_lesson_completed(redis_store, redis_up, completions,
                                 lesson_id, user_id)
    IN  /\ NoTasks
        /\ redis_store' = r.store
        /\ Record(Response("is_lesson_completed", lesson_id, user_id, None,
                           r.result, r.source, 200))
        /\ UNCHANGED <<db_vars, files, redis_up, fk_enforced, tasks, issued,
                       commit_ok, auth_vars>>

-----------------------------------------------------------------------------
(* routers/admin/lesson_admin.py *)

\* the primary key of a new lesson: a value uuid4 has not produced before
\* (which of the unused values it is makes no difference)
uuid4 == LessonName[Cardinality(issued \cap LessonIds) + 1]

create_lesson(course_id, lesson_id, title, text_content, video_file) ==
    /\ NoTasks
    /\ Cardinality(issued \cap LessonIds) < Len(LessonName)
    /\ lesson_id = uuid4
    /\ IF courses[course_id] = None
       THEN /\ Record(Response("create_lesson", lesson_id, "", title,
                               Str("not_found"), "", 404))
            /\ UNCHANGED <<lessons, files, issued>>
       ELSE LET video_path == IF video_file # None
                              THEN save_path_of(video_file) ELSE None
            IN  /\ files' = IF video_file # None
                            THEN save_upload_file(files, video_path)
                            ELSE files
                /\ lessons' = [lessons EXCEPT ![lesson_id] =
                                  [course_id |-> course_id,
                                   title |-> title,
                                   text_content |-> text_content,
                                   video_path |-> video_path]]
                /\ issued' = issued \cup {lesson_id}
                /\ Record(Response("create_lesson", lesson_id, "", title,
                                   Str("created"), "", 303))
    /\ UNCHANGED <<courses, completions, redis_store, redis_up, fk_enforced,
                   tasks, commit_ok, auth_vars>>

update_lesson(lesson_id, title, text_content, video_file) ==
    /\ NoTasks
    /\ IF select_lesson(lesson_id) = None
       THEN /\ Record(Response("update_lesson", lesson_id, "", title,
                               Str("not_found"), "", 404))
            /\ UNCHANGED <<lessons, files, redis_store>>
       ELSE LET lesson == select_lesson(lesson_id)
                save_path == save_path_of(video_file)
                lesson_cache_key == admin_get_lesson_cache_key(lesson_id)
            IN  /\ files' =
                       IF video_file # None
                       THEN save_upload_file(
                                IF Truthy(lesson.video_path)
                                THEN delete_file_async(files,
                                                       lesson.video_path)
                                ELSE files,
                                save_path)
                       ELSE files
                /\ lessons' = [lessons EXCEPT ![lesson_id] =
                                  [course_id |-> lesson.course_id,
                                   title |-> title,
                                   text_content |-> text_content,
                                   video_path |->
                                       IF video_file # None THEN save_path
                                       ELSE lesson.video_path]]
                \* after the commit; a failing delete ends the request
                /\ redis_store' =
                       IF redis_up
                       THEN redis_delete(redis_store, {lesson_cache_key})
                       ELSE redis_store
                /\ Record(Response("update_lesson", lesson_id, "", title,
                                   Str("updated"), "",
                                   IF redis_up THEN 303 ELSE 500))
    /\ UNCHANGED <<courses, completions, redis_up, fk_enforced, tasks, issued,
                   commit_ok, auth_vars>>

\* db.delete(lesson) and commit: the DELETE is refused when the foreign key
\* of a lesson_completions row refers to the lesson and is enforced
delete_refused(lesson_id) ==
    fk_enforced /\ \E r \in completions \cup notes : r.lesson_id = lesson_id

delete_lesson(lesson_id) ==
    /\ NoTasks
    /\ IF select_lesson(lesson_id) = None
       THEN /\ Record(Response("delete_lesson", lesson_id, "", None,
                               Str("not_found"), "", 404))
            /\ UNCHANGED <<lessons, files, redis_store>>
       ELSE LET lesson == select_lesson(lesson_id)
                lesson_cache_key == admin_get_lesson_cache_key(lesson_id)
                pattern == admin_completion_pattern(lesson_id)
            IN  /\ files' = IF Truthy(lesson.video_path)
                            THEN delete_file_async(files, lesson.video_path)
                            ELSE files
                /\ IF delete_refused(lesson_id)
                   THEN /\ UNCHANGED <<lessons, redis_store>>
                        /\ Record(Response("delete_lesson", lesson_id, "",
                                           None, Str("refused"), "", 500))
                   ELSE /\ lessons' = [lessons EXCEPT ![lesson_id] = None]
                        /\ redis_store' =
                               IF redis_up
                               THEN redis_delete(redis_store,
                                                 {lesson_cache_key})
                               ELSE redis_store
                        \* keys = redis.keys(pattern) is not awaited: keys
                        \* is a coroutine object, which is true and is not
                        \* iterable, so redis.delete(*keys) raises
                        \* TypeError and no key of the pattern is deleted
                        /\ Record(Response("delete_lesson", lesson_id, "",
                                           None, Str("deleted"), "", 500))
    /\ UNCHANGED <<courses, completions, redis_up, fk_enforced, tasks, issued,
                   commit_ok, auth_vars>>

-----------------------------------------------------------------------------
(* The environment of the key-value store *)

\* an entry reaches the end of its time to live
Expire(key) ==
    /\ key \in DOMAIN redis_store
    /\ redis_store' = redis_delete(redis_store, {key})
    /\ UNCHANGED <<db_vars, files, redis_up, fk_enforced, last, prev, tasks,
                   issued, nreq, budget, commit_ok, auth_vars>>

\* the store becomes unreachable, or reachable again
RedisOutage ==
    /\ redis_up' = ~redis_up
    /\ UNCHANGED <<db_vars, files, redis_store, fk_enforced, last, prev,
                   tasks, issued, nreq, budget, commit_ok, auth_vars>>

\* requests handled one after the other
Next ==
    \/ \E l \in LessonIds : lesson_page(l)
    \/ \E l \in LessonIds, u \in UserIds : complete_lesson(l, u)
    \/ \E l \in LessonIds, u \in UserIds : lesson_completed_status(l, u)
    \/ \E c \in CourseIds, l \in LessonIds, f \in Forms :
          create_lesson(c, l, f[1], f[2], f[3])
    \/ \E l \in LessonIds, f \in Forms : update_lesson(l, f[1], f[2], f[3])
    \/ \E l \in LessonIds : delete_lesson(l)
    \/ \E k \in DOMAIN redis_store : Expire(k)
    \/ RedisOutage

Spec == Init /\ [][Next]_vars

\* the requests that read or change a lesson, in longer runs
NextContent ==
    \/ \E l \in LessonIds : lesson_page(l)
    \/ \E c \in CourseIds, l \in LessonIds, f \in Forms :
          create_lesson(c, l, f[1], f[2], f[3])
    \/ \E l \in LessonIds, f \in Forms : update_lesson(l, f[1], f[2], f[3])
    \/ \E l \in LessonIds : delete_lesson(l)
    \/ \E k \in DOMAIN redis_store : Expire(k)
    \/ RedisOutage

SpecContent == InitContent /\ [][NextContent]_vars

-----------------------------------------------------------------------------
(* Requests interleaved by the event loop: mark_lesson_completed runs from *)
(* one await to the next, and other requests run in between.               *)

\* PUT /lessons/{lesson_id}/complete arrives
mark_begin(t, lesson_id, user_id) ==
    /\ tasks[t] = Idle
    /\ nreq < budget
    /\ nreq' = nreq + 1
    /\ budget' = budget
    /\ tasks' = [tasks EXCEPT ![t] =
                    Task("mark_lesson_completed", lesson_id, user_id,
                         "select_lesson", None)]
    /\ UNCHANGED <<db_vars, files, redis_store, redis_up, fk_enforced, last,
                   prev, issued, commit_ok, auth_vars>>

\* await db.execute(select(models.Lesson)...)
mark_select_lesson(t) ==
    LET task == tasks[t]
    IN  /\ task.op = "mark_lesson_completed" /\ task.pc = "select_lesson"
        /\ tasks' = [tasks EXCEPT ![t] =
                        IF select_lesson(task.lesson_id) = None
                        THEN [task EXCEPT !.pc = "done", !.result = None]
                        ELSE [task EXCEPT !.pc = "select_existing"]]
        /\ UNCHANGED <<db_vars, files, redis_store, redis_up, fk_enforced,
                       last, prev, issued, nreq, budget, commit_ok,
                       auth_vars>>

\* await db.execute(select(models.LessonCompletion)...)
mark_select_existing(t) ==
    LET task == tasks[t]
        existing == select_completion(completions, task.user_id,
                                      task.lesson_id)
    IN  /\ task.op = "mark_lesson_completed" /\ task.pc = "select_existing"
        /\ tasks' = [tasks EXCEPT ![t] =
                        IF existing # {}
                        THEN [task EXCEPT !.pc = "done", !.result = False]
                        ELSE [task EXCEPT !.pc = "commit"]]
        /\ UNCHANGED <<db_vars, files, redis_store, redis_up, fk_enforced,
                       last, prev, issued, nreq, budget, commit_ok,
                       auth_vars>>

\* db.add(completion); await db.commit()
mark_commit(t) ==
    LET task == tasks[t]
    IN  /\ task.op = "mark_lesson_completed" /\ task.pc = "commit"
        /\ completions' =
               IF commit_ok
               THEN completions \cup
                        {LessonCompletion(completions, task.lesson_id,
                                          task.user_id)}
               ELSE completions
        /\ tasks' = [tasks EXCEPT ![t] =
                        IF commit_ok THEN [task EXCEPT !.pc = "setex"]
                        ELSE [task EXCEPT !.pc = "done",
                                          !.result = Raised]]
        /\ UNCHANGED <<lessons, courses, files, redis_store, redis_up,
                       fk_enforced, last, prev, issued, nreq, budget,
                       commit_ok, auth_vars>>

\* await redis.setex(cache_key, ..., "true"), an error is logged
mark_setex(t) ==
    LET task == tasks[t]
        cache_key == get_completion_cache_key(task.user_id, task.lesson_id)
    IN  /\ task.op = "mark_lesson_completed" /\ task.pc = "setex"
        /\ redis_store' =
               IF redis_up
               THEN redis_setex(redis_store, cache_key,
                                CACHE_COMPLETION_EXPIRE_SECONDS, <<"true">>)
               ELSE redis_store
        /\ tasks' = [tasks EXCEPT ![t] = [task EXCEPT !.pc = "delete"]]
        /\ UNCHANGED <<db_vars, files, redis_up, fk_enforced, last, prev,
                       issued, nreq, budget, commit_ok, auth_vars>>

\* await redis.delete(lesson_cache_key), an error is logged; return True
mark_delete(t) ==
    LET task == tasks[t]
        lesson_cache_key == get_lesson_cache_key(task.lesson_id)
    IN  /\ task.op = "mark_lesson_completed" /\ task.pc = "delete"
        /\ redis_store' =
               IF redis_up
               THEN redis_delete(redis_store, {lesson_cache_key})
               ELSE redis_store
        /\ tasks' = [tasks EXCEPT ![t] =
                        [task EXCEPT !.pc = "done", !.result = True]]
        /\ UNCHANGED <<db_vars, files, redis_up, fk_enforced, last, prev,
                       issued, nreq, budget, commit_ok, auth_vars>>

\* the response is sent and the request ends
task_return(t) ==
    /\ tasks[t].pc = "done"
    /\ tasks' = [tasks EXCEPT ![t] = Idle]
    /\ UNCHANGED <<db_vars, files, redis_store, redis_up, fk_enforced, last,
                   prev, issued, nreq, budget, commit_ok, auth_vars>>

NextConc ==
    \/ \E t \in DOMAIN tasks, l \in LessonIds, u \in UserIds :
          mark_begin(t, l, u)
    \/ \E t \in DOMAIN tasks : mark_select_lesson(t)
    \/ \E t \in DOMAIN tasks : mark_select_existing(t)
    \/ \E t \in DOMAIN tasks : mark_commit(t)
    \/ \E t \in DOMAIN tasks : mark_setex(t)
    \/ \E t \in DOMAIN tasks : mark_delete(t)
    \/ \E t \in DOMAIN tasks : task_return(t)
    \/ \E k \in DOMAIN redis_store : Expire(k)
    \/ RedisOutage

SpecConc == Init /\ [][NextConc]_vars

-----------------------------------------------------------------------------
(* auth/routes.py; a protected route begins with Depends(get_current_user) *)

\* POST /auth/register up to the answer of the query on users
register_exists(t, email, password) ==
    LET normalized_email == strip(lower(email))
        user_exists == \E u \in users : u.email = normalized_email
    IN  /\ tasks[t] = Idle
        /\ nreq < budget
        /\ nreq' = nreq + 1
        /\ budget' = budget
        /\ IF user_exists
           THEN /\ tasks' = tasks
                /\ last' = AuthResponse(
                               "register_form", email, None,
                               create_flash_error_redirect(
                                   Str("/auth/register"),
                                   Str("email already registered")))
                /\ prev' = last
           ELSE /\ tasks' = [tasks EXCEPT ![t] =
                                RegisterTask(email, normalized_email,
                                             password)]
                /\ UNCHANGED <<last, prev>>
        /\ UNCHANGED <<db_vars, files, redis_store, redis_up, fk_enforced,
                       issued, commit_ok, users, held, now, ticks, revoked,
                       notes, sessions>>

\* db.add(new_user), commit and refresh, then the response; a commit that
\* fails is rolled back and answered with a flash message
register_commit(t) ==
    LET task == tasks[t]
        new_user == User(task.normalized_email,
                         get_password_hash(task.password))
        added == insert_user(users, new_user)
        response == create_auth_response(new_user, Str("/courses"), now)
    IN  /\ task.op = "register_form" /\ task.pc = "commit"
        /\ tasks' = [tasks EXCEPT ![t] = Idle]
        /\ prev' = last
        /\ IF commit_ok /\ added.ok
           THEN /\ users' = added.rows
                /\ held' = held \cup {response.cookies["access_token"],
                                       response.cookies["refresh_token"]}
                /\ last' = AuthResponse("register_form", task.email,
                                        None, response)
           ELSE /\ UNCHANGED <<users, held>>
                /\ last' = AuthResponse(
                               "register_form", task.email, None,
                               create_flash_error_redirect(
                                   Str("/auth/register"),
                                   Str("registration failed")))
        /\ UNCHANGED <<db_vars, files, redis_store, redis_up, fk_enforced,
                       issued, nreq, budget, commit_ok, now, ticks, revoked,
                       notes, sessions>>

\* POST /auth/login
login_api(username, password) ==
    LET response == common_login_flow(users, strip(lower(username)),
                                      password, Str("/courses"), FALSE, now)
    IN  /\ NoTasks
        /\ held' = IF "access_token" \in DOMAIN response.cookies
                   THEN held \cup {response.cookies["access_token"]}
                   ELSE held
        /\ Record([AuthResponse("login_api", username, None, response)
                       EXCEPT !.password = password])
        /\ UNCHANGED <<db_vars, files, redis_store, redis_up, fk_enforced,
                       tasks, issued, commit_ok, users, now, ticks, revoked,
                       notes, sessions>>

\* GET /auth/logout: perform_logout
logout(access_token) ==
    /\ NoTasks
    /\ redis_store' =
           IF Truthy(access_token)
              /\ ~is_token_blacklisted(redis_store, redis_up, access_token)
           THEN add_to_blacklist(redis_store, redis_up, access_token)
           ELSE redis_store
    /\ Record(AuthResponse(
                  "logout", None, access_token,
                  clear_refresh_cookie(
                      clear_auth_cookie(RedirectResponse(Str("/"), 303)))))
    /\ revoked' = IF Truthy(access_token)
                  THEN revoked \cup {[token |-> access_token, at |-> now,
                                      redis_ok |-> redis_up]}
                  ELSE revoked
    /\ UNCHANGED <<db_vars, files, redis_up, fk_enforced, tasks, issued,
                   commit_ok, users, held, now, ticks, notes, sessions>>

\* a request to a route that depends on get_current_user, up to the
\* outcome of the dependency
depends_get_current_user(access_token) ==
    LET r == get_current_user(redis_store, redis_up, users, access_token,
                              now)
    IN  /\ NoTasks
        /\ Record(AuthResponse(
                      "get_current_user",
                      IF r.user = None THEN None ELSE r.user.email,
                      access_token,
                      [location |-> r.location, status |-> r.status,
                       cookies |-> <<>>, deleted |-> {}]))
        /\ UNCHANGED <<db_vars, files, redis_store, redis_up, fk_enforced,
                       tasks, issued, commit_ok, auth_vars>>

\* time passes: the clock advances and every entry of the key-value store
\* comes d seconds nearer to its end; an entry whose time is up is gone
Advance(d) ==
    /\ ticks < MaxAdvances
    /\ ticks' = ticks + 1
    /\ now' = now + d
    /\ redis_store' =
           [k \in {j \in DOMAIN redis_store :
                      redis_store[j].ex = -1 \/ redis_store[j].ex > d} |->
               IF redis_store[k].ex = -1 THEN redis_store[k]
               ELSE [redis_store[k] EXCEPT !.ex = @ - d]]
    /\ UNCHANGED <<db_vars, files, redis_up, fk_enforced, last, prev, tasks,
                   issued, nreq, budget, commit_ok, users, held, revoked,
                   notes, sessions>>

\* the database stops carrying out commits, or carries them out again
CommitOutage ==
    /\ commit_ok' = ~commit_ok
    /\ UNCHANGED <<db_vars, files, redis_store, redis_up, fk_enforced, last,
                   prev, tasks, issued, nreq, budget, auth_vars>>

\* what a client can send as its access_token cookie: nothing, a text that
\* is no token, or a token it was handed
Presented == {None, <<"junk">>} \cup held

\* registrations interleaved by the event loop, and logging in
NextRegister ==
    \/ \E t \in DOMAIN tasks, e \in EmailInputs, p \in PasswordInputs :
          register_exists(t, e, p)
    \/ \E t \in DOMAIN tasks : register_commit(t)
    \/ \E e \in EmailInputs, p \in PasswordInputs : login_api(e, p)
    \/ CommitOutage

SpecRegister == InitRegister /\ [][NextRegister]_vars

\* the administrator logging in, logging out and presenting a token, as
\* time passes
NextAuth ==
    \/ \E p \in PasswordInputs : login_api(<<"a">>, p)
    \/ \E a \in Presented : logout(a)
    \/ \E a \in Presented : depends_get_current_user(a)
    \/ \E d \in Delays : Advance(d)
    \/ RedisOutage

SpecAuth == InitAuth /\ [][NextAuth]_vars

-----------------------------------------------------------------------------
(* Further environments of the lesson routes *)

\* another writer leaves a text under the cache key of a lesson
Corrupt(lesson_id, value) ==
    /\ redis_store' = redis_setex(redis_store,
                                  get_lesson_cache_key(lesson_id),
                                  CACHE_LESSON_EXPIRE_SECONDS, value)
    /\ UNCHANGED <<db_vars, files, redis_up, fk_enforced, last, prev, tasks,
                   issued, nreq, budget, commit_ok, auth_vars>>

\* reading lessons whose cache entries another writer overwrites
NextCorrupt ==
    \/ \E l \in LessonIds : lesson_page(l)
    \/ \E l \in LessonIds, v \in CorruptValues : Corrupt(l, v)
    \/ RedisOutage

SpecCorrupt == InitCorrupt /\ [][NextCorrupt]_vars

\* completing lessons on a database whose commits can fail
NextCommit ==
    \/ \E l \in LessonIds : lesson_page(l)
    \/ \E l \in LessonIds, u \in UserIds : complete_lesson(l, u)
    \/ \E l \in LessonIds, u \in UserIds : lesson_completed_status(l, u)
    \/ CommitOutage
    \/ RedisOutage

SpecCommit == InitCommit /\ [][NextCommit]_vars

\* the lesson routes as time passes
NextTtl ==
    \/ \E l \in LessonIds : lesson_page(l)
    \/ \E l \in LessonIds, u \in UserIds : complete_lesson(l, u)
    \/ \E l \in LessonIds, u \in UserIds : lesson_completed_status(l, u)
    \/ \E d \in TtlDelays : Advance(d)
    \/ RedisOutage

SpecTtl == InitTtl /\ [][NextTtl]_vars

-----------------------------------------------------------------------------
(* is_lesson_completed, one await at a time, beside mark_lesson_completed *)

\* a slip: the flag is written as "true" whatever the query found
completion_flag_true(completed) == <<"true">>

\* "true" if completed else "false"
completion_flag(completed) ==
    IF completed = True THEN <<"true">> ELSE <<"false">>

is_begin(t, lesson_id, user_id) ==
    /\ tasks[t] = Idle
    /\ nreq < budget
    /\ nreq' = nreq + 1
    /\ budget' = budget
    /\ tasks' = [tasks EXCEPT ![t] =
                    Task("is_lesson_completed", lesson_id, user_id, "get",
                         None)]
    /\ UNCHANGED <<db_vars, files, redis_store, redis_up, fk_enforced, last,
                   prev, issued, commit_ok, auth_vars>>

\* await redis.get(cache_key): a hit is returned, an error is logged
is_get(t) ==
    LET task == tasks[t]
        cache_key == get_completion_cache_key(task.user_id, task.lesson_id)
        cached_status == IF redis_up THEN redis_get(redis_store, cache_key)
                         ELSE None
    IN  /\ task.op = "is_lesson_completed" /\ task.pc = "get"
        /\ tasks' = [tasks EXCEPT ![t] =
                        IF cached_status # None
                        THEN [task EXCEPT
                                 !.pc = "done",
                                 !.result = Bool(cached_status = <<"true">>)]
                        ELSE [task EXCEPT !.pc = "select"]]
        /\ UNCHANGED <<db_vars, files, redis_store, redis_up, fk_enforced,
                       last, prev, issued, nreq, budget, commit_ok,
                       auth_vars>>

\* await db.execute(select(models.LessonCompletion)...)
is_select(t) ==
    LET task == tasks[t]
        completed == select_completion(completions, task.user_id,
                                       task.lesson_id) # {}
    IN  /\ task.op = "is_lesson_completed" /\ task.pc = "select"
        /\ tasks' = [tasks EXCEPT ![t] =
                        [task EXCEPT !.pc = "setex",
                                     !.result = Bool(completed)]]
        /\ UNCHANGED <<db_vars, files, redis_store, redis_up, fk_enforced,
                       last, prev, issued, nreq, budget, commit_ok,
                       auth_vars>>

\* await redis.setex(cache_key, ..., flag), an error is logged; return
is_setex(t) ==
    LET task == tasks[t]
        cache_key == get_completion_cache_key(task.user_id, task.lesson_id)
    IN  /\ task.op = "is_lesson_completed" /\ task.pc = "setex"
        /\ redis_store' =
               IF redis_up
               THEN redis_setex(redis_store, cache_key,
                                CACHE_COMPLETION_EXPIRE_SECONDS,
                                completion_flag(task.result))
               ELSE redis_store
        /\ tasks' = [tasks EXCEPT ![t] = [task EXCEPT !.pc = "done"]]
        /\ UNCHANGED <<db_vars, files, redis_up, fk_enforced, last, prev,
                       issued, nreq, budget, commit_ok, auth_vars>>

\* readers and writers of the completion status, interleaved
NextRace ==
    \/ \E t \in DOMAIN tasks, l \in LessonIds, u \in UserIds :
          is_begin(t, l, u)
    \/ \E t \in DOMAIN tasks : is_get(t)
    \/ \E t \in DOMAIN tasks : is_select(t)
    \/ \E t \in DOMAIN tasks : is_setex(t)
    \/ \E t \in DOMAIN tasks, l \in LessonIds, u \in UserIds :
          mark_begin(t, l, u)
    \/ \E t \in DOMAIN tasks : mark_select_lesson(t)
    \/ \E t \in DOMAIN tasks : mark_select_existing(t)
    \/ \E t \in DOMAIN tasks : mark_commit(t)
    \/ \E t \in DOMAIN tasks : mark_setex(t)
    \/ \E t \in DOMAIN tasks : mark_delete(t)
    \/ \E t \in DOMAIN tasks : task_return(t)
    \/ RedisOutage

SpecRace == InitRace /\ [][NextRace]_vars

-----------------------------------------------------------------------------
(* routers/admin/course_admin.py: the handlers, as the administrator *)

\* the primary key of a new course
course_uuid4 == CourseName[Cardinality(issued \cap CourseUuids) + 1]

\* the record of a request to a course route
CourseResponse(op, course_id, title, result, status) ==
    [course_id |-> course_id]
        @@ Response(op, "", "", title, result, "", status)

\* select(models.Course).filter(models.Course.id == course_id), first()
select_course(course_id) == courses[course_id]

\* the lessons that Course.lessons holds, which the cascade deletes
lessons_of(course_id) ==
    {l \in LessonIds :
        lessons[l] # None /\ lessons[l].course_id = course_id}

create_course_form(course_id, title) ==
    /\ NoTasks
    /\ Cardinality(issued \cap CourseUuids) < Len(CourseName)
    /\ course_id = course_uuid4
    /\ IF commit_ok
       THEN /\ courses' = [courses EXCEPT ![course_id] = [title |-> title]]
            /\ issued' = issued \cup {course_id}
            /\ Record(CourseResponse("create_course_form", course_id, title,
                                     Str("created"), 303))
       ELSE /\ UNCHANGED <<courses, issued>>
            /\ Record(CourseResponse("create_course_form", course_id, title,
                                     Raised, 500))
    /\ UNCHANGED <<lessons, completions, files, redis_store, redis_up,
                   fk_enforced, tasks, commit_ok, auth_vars>>

update_course(course_id, title) ==
    /\ NoTasks
    /\ IF select_course(course_id) = None
       THEN /\ Record(CourseResponse("update_course", course_id, title,
                                     Str("not_found"), 404))
            /\ UNCHANGED courses
       ELSE IF commit_ok
       THEN /\ courses' = [courses EXCEPT ![course_id].title = title]
            /\ Record(CourseResponse("update_course", course_id, title,
                                     Str("updated"), 303))
       ELSE /\ UNCHANGED courses
            /\ Record(CourseResponse("update_course", course_id, title,
                                     Raised, 500))
    /\ UNCHANGED <<lessons, completions, files, redis_store, redis_up,
                   fk_enforced, tasks, issued, commit_ok, auth_vars>>

\* db.delete(course) and commit: the lessons of the course go with it; the
\* DELETE is refused when an enforced foreign key refers to one of them.
\* The record of a delete carries the lessons that went with the course.
delete_course(course_id) ==
    /\ NoTasks
    /\ IF select_course(course_id) = None
       THEN /\ Record(CourseResponse("delete_course", course_id, None,
                                     Str("not_found"), 404))
            /\ UNCHANGED <<courses, lessons>>
       ELSE IF \E l \in lessons_of(course_id) : delete_refused(l)
       THEN /\ Record(CourseResponse("delete_course", course_id, None,
                                     Str("refused"), 500))
            /\ UNCHANGED <<courses, lessons>>
       ELSE IF ~commit_ok
       THEN /\ Record(CourseResponse("delete_course", course_id, None,
                                     Raised, 500))
            /\ UNCHANGED <<courses, lessons>>
       ELSE /\ courses' = [courses EXCEPT ![course_id] = None]
            /\ lessons' = [l \in LessonIds |->
                              IF l \in lessons_of(course_id) THEN None
                              ELSE lessons[l]]
            /\ Record([lessons |-> lessons_of(course_id)]
                          @@ CourseResponse("delete_course", course_id,
                                            None, Str("deleted"), 303))
    /\ UNCHANGED <<completions, files, redis_store, redis_up, fk_enforced,
                   tasks, issued, commit_ok, auth_vars>>

\* the course administration beside the lesson page
NextCourse ==
    \/ \E l \in LessonIds : lesson_page(l)
    \/ \E l \in LessonIds, u \in UserIds : complete_lesson(l, u)
    \/ \E c \in CourseUuids, f \in Forms : create_course_form(c, f[1])
    \/ \E c \in CourseUuids, f \in Forms : update_course(c, f[1])
    \/ \E c \in CourseUuids : delete_course(c)
    \/ \E c \in CourseUuids, l \in LessonIds :
          create_lesson(c, l, <<"a">>, <<"hi">>, None)
    \/ RedisOutage

SpecCourse == InitCourse /\ [][NextCourse]_vars

-----------------------------------------------------------------------------
(* auth/dependencies.py, require_admin: every route of the administration  *)
(* that changes something begins with Depends(require_admin), and its      *)
(* handler runs once the dependency has returned the user                  *)

\* a slip: the column is_admin is not read
require_admin_anyone(current_user) == current_user

\* require_admin over the outcome of Depends(get_current_user): the user,
\* the redirect of get_current_user, or the HTTPException 403
require_admin(current_user) ==
    IF current_user.status # 200 THEN current_user
    ELSE IF ~current_user.user.is_admin
    THEN [user |-> None, status |-> 403, location |-> None]
    ELSE current_user

\* a request to a route of the administration, up to the outcome of the
\* dependency; the record carries the e-mail of the user the token names
depends_require_admin(access_token) ==
    LET u == get_current_user(redis_store, redis_up, users, access_token,
                              now)
        r == require_admin(u)
    IN  /\ NoTasks
        /\ Record(AuthResponse(
                      "require_admin",
                      IF u.user = None THEN None ELSE u.user.email,
                      access_token,
                      [location |-> r.location, status |-> r.status,
                       cookies |-> <<>>, deleted |-> {}]))
        /\ UNCHANGED <<db_vars, files, redis_store, redis_up, fk_enforced,
                       tasks, issued, commit_ok, auth_vars>>

\* the dependency of the request in hand has returned the user
admitted == last.op = "require_admin" /\ last.status = 200

\* a visitor registers, the administrator logs in, and each of them sends
\* requests to the routes of the administration
NextAdmin ==
    \/ \E t \in DOMAIN tasks : register_exists(t, <<"b">>, <<"p">>)
    \/ \E t \in DOMAIN tasks : register_commit(t)
    \/ login_api(<<"a">>, <<"p">>)
    \/ \E a \in Presented : depends_require_admin(a)
    \/ \E c \in CourseUuids : admitted /\ create_course_form(c, <<"b">>)
    \/ \E c \in CourseUuids : admitted /\ update_course(c, <<"b">>)
    \/ \E c \in CourseUuids : admitted /\ delete_course(c)
    \/ \E c \in CourseUuids, l \in LessonIds, f \in Forms :
          admitted /\ create_lesson(c, l, f[1], f[2], f[3])
    \/ \E l \in LessonIds, f \in Forms :
          admitted /\ update_lesson(l, f[1], f[2], f[3])
    \/ \E l \in LessonIds : admitted /\ delete_lesson(l)
    \/ \E l \in LessonIds : lesson_page(l)

SpecAdmin == InitAdmin /\ [][NextAdmin]_vars

-----------------------------------------------------------------------------

(* routers/notes.py: the notes of a user on a lesson; current_user is the  *)
(* user that Depends(get_current_user) returned                            *)

\* the primary key of a new note
note_uuid4 == NoteName[Cardinality(issued \cap NoteIds) + 1]

\* models.Note: of the columns, the ones the routes read and write
Note(id, user_id, lesson_id, content) ==
    [id |-> id, user_id |-> user_id, lesson_id |-> lesson_id,
     content |-> content]

\* a slip: the filter on user_id is missing
select_note_anyuser(rows, note_id, lesson_id, user_id) ==
    {n \in rows : n.id = note_id /\ n.lesson_id = lesson_id}

\* select(models.Note).where(id == note_id, lesson_id == lesson_id,
\* user_id == current_user.id): the rows the statement selects
select_note(rows, note_id, lesson_id, user_id) ==
    {n \in rows : /\ n.id = note_id /\ n.lesson_id = lesson_id
                  /\ n.user_id = user_id}

\* the record of a request to a route of the notes
NoteResponse(op, lesson_id, user_id, note_id, content, result, status) ==
    [note_id |-> note_id, content |-> content]
        @@ Response(op, lesson_id, user_id, None, result, "", status)

\* POST /lessons/{lesson_id}/note
create_note(lesson_id, user_id, content) ==
    /\ NoTasks
    /\ Cardinality(issued \cap NoteIds) < Len(NoteName)
    /\ IF select_lesson(lesson_id) = None
       THEN /\ Record(NoteResponse("create_note", lesson_id, user_id, "",
                                   content, Str("not_found"), 404))
            /\ UNCHANGED <<notes, issued>>
       ELSE IF ~commit_ok
       THEN /\ Record(NoteResponse("create_note", lesson_id, user_id, "",
                                   content, Raised, 500))
            /\ UNCHANGED <<notes, issued>>
       ELSE /\ notes' = notes \cup {Note(note_uuid4, user_id, lesson_id,
                                         content)}
            /\ issued' = issued \cup {note_uuid4}
            /\ Record(NoteResponse("create_note", lesson_id, user_id,
                                   note_uuid4, content, Str("created"),
                                   201))
    /\ UNCHANGED <<db_vars, files, redis_store, redis_up, fk_enforced,
                   tasks, commit_ok, users, held, now, ticks, revoked,
                   sessions>>

\* PUT /lessons/{lesson_id}/note/{note_id}
update_note(lesson_id, note_id, user_id, content) ==
    LET found == select_note(notes, note_id, lesson_id, user_id)
    IN  /\ NoTasks
        /\ IF found = {}
           THEN /\ Record(NoteResponse("update_note", lesson_id, user_id,
                                       note_id, content, Str("not_found"),
                                       404))
                /\ UNCHANGED notes
           ELSE IF ~commit_ok
           THEN /\ Record(NoteResponse("update_note", lesson_id, user_id,
                                       note_id, content, Raised, 500))
                /\ UNCHANGED notes
           ELSE LET note == CHOOSE n \in found : TRUE
                IN  /\ notes' = (notes \ {note})
                                    \cup {[note EXCEPT !.content = content]}
                    /\ Record(NoteResponse("update_note", lesson_id,
                                           user_id, note_id, content,
                                           Str("updated"), 200))
        /\ UNCHANGED <<db_vars, files, redis_store, redis_up, fk_enforced,
                       tasks, issued, commit_ok, users, held, now, ticks,
                       revoked, sessions>>

\* DELETE /lessons/{lesson_id}/note/{note_id}
delete_note(lesson_id, note_id, user_id) ==
    LET found == select_note(notes, note_id, lesson_id, user_id)
    IN  /\ NoTasks
        /\ IF found = {}
           THEN /\ Record(NoteResponse("delete_note", lesson_id, user_id,
                                       note_id, None, Str("not_found"),
                                       404))
                /\ UNCHANGED notes
           ELSE IF ~commit_ok
           THEN /\ Record(NoteResponse("delete_note", lesson_id, user_id,
                                       note_id, None, Raised, 500))
                /\ UNCHANGED notes
           ELSE /\ notes' = notes \ {CHOOSE n \in found : TRUE}
                /\ Record(NoteResponse("delete_note", lesson_id, user_id,
                                       note_id, None, Str("deleted"), 200))
        /\ UNCHANGED <<db_vars, files, redis_store, redis_up, fk_enforced,
                       tasks, issued, commit_ok, users, held, now, ticks,
                       revoked, sessions>>

\* two users writing, changing and deleting notes on two lessons
NextNotes ==
    \/ \E l \in LessonIds, u \in UserIds, c \in NoteContents :
          create_note(l, u, c)
    \/ \E l \in LessonIds, n \in NoteIds, u \in UserIds,
          c \in NoteContents : update_note(l, n, u, c)
    \/ \E l \in LessonIds, n \in NoteIds, u \in UserIds :
          delete_note(l, n, u)
    \/ \E l \in LessonIds : create_lesson("C1", l, <<"a">>, <<"hi">>, None)
    \/ CommitOutage

SpecNotes == InitNotes /\ [][NextNotes]_vars

-----------------------------------------------------------------------------

(* routers/user_profile.py: GET /api/profile_data runs from one await to   *)
(* the next beside the requests that complete, create and delete lessons   *)

\* select(func.count(models.Lesson.id))
count_lessons == Cardinality({l \in LessonIds : lessons[l] # None})

\* select(func.count(models.LessonCompletion.id)).filter(user_id == ...)
count_completions(user_id) ==
    Cardinality({r \in completions : r.user_id = user_id})

\* GET /api/profile_data arrives
profile_begin(t, user_id) ==
    /\ tasks[t] = Idle
    /\ nreq < budget
    /\ nreq' = nreq + 1
    /\ budget' = budget
    /\ tasks' = [tasks EXCEPT ![t] =
                    Task("get_profile_data_api", "", user_id,
                         "count_lessons", None)]
    /\ UNCHANGED <<db_vars, files, redis_store, redis_up, fk_enforced, last,
                   prev, issued, commit_ok, auth_vars>>

\* total_lessons = (await db.execute(...)).scalar() or 0
profile_count_lessons(t) ==
    LET task == tasks[t]
    IN  /\ task.op = "get_profile_data_api" /\ task.pc = "count_lessons"
        /\ tasks' = [tasks EXCEPT ![t] =
                        [task EXCEPT !.pc = "count_completed",
                                     !.result = count_lessons]]
        /\ UNCHANGED <<db_vars, files, redis_store, redis_up, fk_enforced,
                       last, prev, issued, nreq, budget, commit_ok,
                       auth_vars>>

\* completed = (await db.execute(...)).scalar() or 0, and the response with
\* completed_lessons and total_lessons (the last lessons are left out)
profile_count_completed(t) ==
    LET task == tasks[t]
    IN  /\ task.op = "get_profile_data_api" /\ task.pc = "count_completed"
        /\ tasks' = [tasks EXCEPT ![t] = [task EXCEPT !.pc = "done"]]
        /\ last' = [completed_lessons |-> count_completions(task.user_id),
                    total_lessons |-> task.result]
                       @@ Response("get_profile_data_api", "",
                                   task.user_id, None, None, "", 200)
        /\ prev' = last
        /\ UNCHANGED <<db_vars, files, redis_store, redis_up, fk_enforced,
                       issued, nreq, budget, commit_ok, auth_vars>>

\* the profile beside completions and the administration of lessons
NextProfile ==
    \/ \E t \in DOMAIN tasks, l \in LessonIds, u \in UserIds :
          mark_begin(t, l, u)
    \/ \E t \in DOMAIN tasks : mark_select_lesson(t)
    \/ \E t \in DOMAIN tasks : mark_select_existing(t)
    \/ \E t \in DOMAIN tasks : mark_commit(t)
    \/ \E t \in DOMAIN tasks : mark_setex(t)
    \/ \E t \in DOMAIN tasks : mark_delete(t)
    \/ \E t \in DOMAIN tasks : task_return(t)
    \/ \E t \in DOMAIN tasks, u \in UserIds : profile_begin(t, u)
    \/ \E t \in DOMAIN tasks : profile_count_lessons(t)
    \/ \E t \in DOMAIN tasks : profile_count_completed(t)
    \/ \E l \in LessonIds : create_lesson("C1", l, <<"a">>, <<"hi">>, None)
    \/ \E l \in LessonIds : delete_lesson(l)

SpecProfile == InitProfile /\ [][NextProfile]_vars

-----------------------------------------------------------------------------

(* auth/routes.py, POST /auth/refresh: new tokens for the refresh_token    *)
(* cookie                                                                  *)

\* refresh_token, with refresh_user_tokens
refresh_token(refresh) ==
    LET email == decode_token(redis_store, redis_up, refresh, now)
        response ==
            IF ~Truthy(refresh)
            THEN create_flash_error_redirect(Str("/auth/login"),
                                             Str("no refresh token"))
            ELSE IF ~Truthy(email)
            THEN create_flash_error_redirect(Str("/auth/login"),
                                             Str("bad refresh token"))
            ELSE IF select_user(users, email) = None
            THEN create_flash_error_redirect(Str("/auth/login"),
                                             Str("user not found"))
            ELSE create_auth_response(select_user(users, email),
                                      Str("/courses"), now)
    IN  /\ NoTasks
        /\ held' = IF "refresh_token" \in DOMAIN response.cookies
                   THEN held \cup {response.cookies["access_token"],
                                   response.cookies["refresh_token"]}
                   ELSE held
        /\ Record(AuthResponse("refresh_token", email, refresh, response))
        /\ UNCHANGED <<db_vars, files, redis_store, redis_up, fk_enforced,
                       tasks, issued, commit_ok, users, now, ticks, revoked,
                       notes, sessions>>

\* a visitor registers, logs out and asks for new tokens, as time passes
NextRefresh ==
    \/ \E t \in DOMAIN tasks, p \in PasswordInputs :
          register_exists(t, <<"b">>, p)
    \/ \E t \in DOMAIN tasks : register_commit(t)
    \/ \E a \in Presented : logout(a)
    \/ \E r \in Presented : refresh_token(r)
    \/ \E d \in Delays : Advance(d)

SpecRefresh == InitRefresh /\ [][NextRefresh]_vars

-----------------------------------------------------------------------------

(* db/database.py: the session of a request, from Depends(get_db) to the   *)
(* end of the request                                                      *)

\* async_session_factory(): a new AsyncSession on the pool of the engine
async_session_factory(ss) ==
    [id |-> Cardinality(ss) + 1, open |-> TRUE, used_by |-> {}]

\* the handler of the request works with the session it was given
session_execute(ss, id, request) ==
    {IF x.id = id THEN [x EXCEPT !.used_by = @ \cup {request}] ELSE x :
        x \in ss}

session_close(ss, id) ==
    {IF x.id = id THEN [x EXCEPT !.open = FALSE] ELSE x : x \in ss}

\* a slip: the session is closed after the yield, without try and finally
get_db_exit_nofinally(ss, id, result) ==
    [sessions |-> IF result = Raised THEN ss ELSE session_close(ss, id),
     raised |-> result = Raised]

\* get_db after the yield: finally closes the session, and what the
\* handler raised goes on to the caller
get_db_exit(ss, id, result) ==
    [sessions |-> session_close(ss, id), raised |-> result = Raised]

\* a request in flight that depends on get_db
SessionTask(request, session, pc, result) ==
    [op |-> "get_db", lesson_id |-> "", user_id |-> "", pc |-> pc,
     result |-> result, request |-> request, session |-> session]

\* Depends(get_db) up to the yield
get_db_enter(t) ==
    LET session == async_session_factory(sessions)
    IN  /\ tasks[t] = Idle
        /\ nreq < budget
        /\ nreq' = nreq + 1
        /\ budget' = budget
        /\ sessions' = sessions \cup {session}
        /\ tasks' = [tasks EXCEPT ![t] =
                        SessionTask(nreq + 1, session.id, "yield", None)]
        /\ UNCHANGED <<db_vars, files, redis_store, redis_up, fk_enforced,
                       last, prev, issued, commit_ok, users, held, now,
                       ticks, revoked, notes>>

\* the handler works with its session and returns
handler_returns(t) ==
    LET task == tasks[t]
    IN  /\ task.op = "get_db" /\ task.pc = "yield"
        /\ sessions' = session_execute(sessions, task.session, task.request)
        /\ tasks' = [tasks EXCEPT ![t] = [task EXCEPT !.pc = "finally"]]
        /\ UNCHANGED <<db_vars, files, redis_store, redis_up, fk_enforced,
                       last, prev, issued, nreq, budget, commit_ok, users,
                       held, now, ticks, revoked, notes>>

\* the handler works with its session and raises
handler_raises(t) ==
    LET task == tasks[t]
    IN  /\ task.op = "get_db" /\ task.pc = "yield"
        /\ sessions' = session_execute(sessions, task.session, task.request)
        /\ tasks' = [tasks EXCEPT ![t] =
                        [task EXCEPT !.pc = "finally", !.result = Raised]]
        /\ UNCHANGED <<db_vars, files, redis_store, redis_up, fk_enforced,
                       last, prev, issued, nreq, budget, commit_ok, users,
                       held, now, ticks, revoked, notes>>

\* get_db after the yield, and the end of the request
get_db_finally(t) ==
    LET task == tasks[t]
        r == get_db_exit(sessions, task.session, task.result)
    IN  /\ task.op = "get_db" /\ task.pc = "finally"
        /\ sessions' = r.sessions
        /\ tasks' = [tasks EXCEPT ![t] = Idle]
        /\ last' = Response("get_db", "", "", None, task.result, "",
                            IF r.raised THEN 500 ELSE 200)
        /\ prev' = last
        /\ UNCHANGED <<db_vars, files, redis_store, redis_up, fk_enforced,
                       issued, nreq, budget, commit_ok, users, held, now,
                       ticks, revoked, notes>>

NextSession ==
    \/ \E t \in DOMAIN tasks : get_db_enter(t)
    \/ \E t \in DOMAIN tasks : handler_returns(t)
    \/ \E t \in DOMAIN tasks : handler_raises(t)
    \/ \E t \in DOMAIN tasks : get_db_finally(t)

\* the event loop resumes every coroutine that can go on: a handler comes
\* to its end, and the generator of get_db is run to its end
SpecSession ==
    /\ InitSession
    /\ [][NextSession]_vars
    /\ \A t \in 1..MaxTasks :
           /\ WF_vars(handler_returns(t) \/ handler_raises(t))
           /\ WF_vars(get_db_finally(t))

-----------------------------------------------------------------------------
(* Properties.  They speak of the tables and of the key-value store        *)
(* directly, and of the requests through last and prev.                    *)

RowsFor(user_id, lesson_id) ==
    {r \in completions : r.user_id = user_id /\ r.lesson_id = lesson_id}

LessonKey(lesson_id) == <<"v1", ":", "lesson", ":", lesson_id>>

CompletionKey(user_id, lesson_id) ==
    <<"v1", ":", "user", ":", user_id, ":", "lesson", ":", lesson_id, ":",
      "completed">>

\* the request r was the call op(lesson_id, user_id)
Was(r, op, lesson_id, user_id) ==
    r.op = op /\ r.lesson_id = lesson_id /\ r.user_id = user_id

\* this step handles the call op(lesson_id, user_id)
Handles(op, lesson_id, user_id) ==
    nreq' = nreq + 1 /\ Was(last', op, lesson_id, user_id)

\* C1: when the content cache holds an entry for lesson L, written by an
\* earlier get_lesson_data, and update_lesson then changes the title of L,
\* the next get_lesson_data(L) returns the new title.
C1_InvalidationOnUpdate ==
    [][\A l \in LessonIds :
        (/\ Was(prev, "get_lesson_data", l, "")
         /\ prev.result[1] # None
         /\ Was(last, "update_lesson", l, "")
         /\ last.status = 303
         /\ Handles("get_lesson_data", l, ""))
        => (/\ last'.result[1] # None
            /\ last'.result[1].title = last.title)]_vars

\* C2: after delete_lesson(L) the completion cache holds no entry for
\* (U, L), for every user U.
C2_BulkInvalidationOnDelete ==
    \A l \in LessonIds :
        (/\ Was(last, "delete_lesson", l, "")
         /\ last.result = Str("deleted")
         /\ last.redis_ok)
        => \A u \in UserIds : CompletionKey(u, l) \notin DOMAIN redis_store

\* C3: a call of mark_lesson_completed(L, U) for an existing lesson returns
\* True exactly when no record of (U, L) existed, False exactly when one
\* did, and leaves exactly one record of (U, L): sequential calls return
\* True once and False from then on.
C3_CompletionIdempotence ==
    [][\A l \in LessonIds, u \in UserIds :
        (Handles("mark_lesson_completed", l, u) /\ lessons[l] # None)
        => (/\ (last'.result = True) <=> (RowsFor(u, l) = {})
            /\ (last'.result = False) <=> (RowsFor(u, l) # {})
            /\ Cardinality({r \in completions' :
                   r.user_id = u /\ r.lesson_id = l}) = 1)]_vars

C3_Witness ==
    \E l \in LessonIds, u \in UserIds :
        /\ Was(prev, "mark_lesson_completed", l, u)
        /\ prev.result = True
        /\ Was(last, "mark_lesson_completed", l, u)
        /\ last.result = False
        /\ Cardinality(RowsFor(u, l)) = 1

\* C4: there is at most one completion record per (user, lesson), also
\* when calls of mark_lesson_completed for the same pair interleave.
C4_AtMostOneCompletion ==
    \A l \in LessonIds, u \in UserIds : Cardinality(RowsFor(u, l)) <= 1

\* C5: get_lesson_data(L) answered from the cache returns the triple that
\* the preceding get_lesson_data(L) read from the database, no request
\* having changed the lesson or its course between the two.
C5_CacheCorrectness ==
    \A l \in LessonIds :
        (/\ Was(prev, "get_lesson_data", l, "")
         /\ prev.source = "db"
         /\ Was(last, "get_lesson_data", l, "")
         /\ last.source = "cache")
        => last.result = prev.result

\* C6: while the key-value store fails, get_lesson_data returns the bundle
\* of the database row (or the absent triple) and is_lesson_completed
\* returns whether a record of the pair exists, both without an error.
C6_OutageTolerance ==
    /\ (last.op = "get_lesson_data" /\ ~last.redis_ok)
       => (/\ last.result = fetch_lesson_from_db(last.lesson_id)
           /\ last.status = IF lessons[last.lesson_id] = None
                            THEN 404 ELSE 200)
    /\ (last.op = "is_lesson_completed" /\ ~last.redis_ok)
       => (/\ last.result = Bool(RowsFor(last.user_id, last.lesson_id) # {})
           /\ last.status = 200)

C6_Witness ==
    /\ prev.op = "get_lesson_data" /\ ~prev.redis_ok
    /\ prev.result[1] # None
    /\ last.op = "is_lesson_completed" /\ ~last.redis_ok
    /\ last.result = True
    /\ CompletionKey(last.user_id, last.lesson_id) \notin DOMAIN redis_store

\* C7: mark_lesson_completed(L, U) for a lesson that does not exist returns
\* None, adds no completion record and changes no cache entry.
C7_NotFoundSignalling ==
    [][\A l \in LessonIds, u \in UserIds :
        (Handles("mark_lesson_completed", l, u) /\ lessons[l] = None)
        => (/\ last'.result = None
            /\ completions' = completions
            /\ redis_store' = redis_store)]_vars

C7_Witness ==
    \E l \in LessonIds, u \in UserIds :
        /\ Was(last, "mark_lesson_completed", l, u)
        /\ last.result = None
        /\ CompletionKey(u, l) \in DOMAIN redis_store
        /\ completions # {}

C9_DeleteEvictsContent ==
    \A l \in LessonIds :
        /\ (/\ Was(last, "delete_lesson", l, "")
            /\ last.result = Str("deleted")
            /\ last.redis_ok)
           => LessonKey(l) \notin DOMAIN redis_store
        /\ (/\ Was(prev, "delete_lesson", l, "")
            /\ prev.result = Str("deleted")
            /\ prev.redis_ok
            /\ Was(last, "get_lesson_data", l, ""))
           => last.result[1] = None

\* C10: after delete_lesson(L) the table lesson_completions holds no row
\* whose lesson_id is L.
C10_DeleteRemovesCompletions ==
    \A l \in LessonIds :
        (Was(last, "delete_lesson", l, "") /\ last.result = Str("deleted"))
        => \A r \in completions : r.lesson_id # l

\* C11: when the delete of a cache key fails during update_lesson or
\* delete_lesson, the request still ends with its redirect and the change
\* of the database stays committed.
C11_AdminToleratesCacheFailure ==
    \A l \in LessonIds :
        /\ (/\ Was(last, "update_lesson", l, "")
            /\ last.result = Str("updated")
            /\ ~last.redis_ok)
           => (/\ last.status = 303
               /\ lessons[l] # None
               /\ lessons[l].title = last.title)
        /\ (/\ Was(last, "delete_lesson", l, "")
            /\ last.result = Str("deleted")
            /\ ~last.redis_ok)
           => (last.status = 303 /\ lessons[l] = None)

\* the text is one of those get_lesson_data must not take for a bundle
IsCorruptEntry(text) == text \in CorruptValues

\* the text of the entry is the bundle of the triple
HoldsBundle(text, triple) ==
    /\ json_loads(text).ok
    /\ json_loads(text).val =
           [lesson |-> triple[1], course |-> triple[2],
            text_html |-> triple[3]]

\* C12: when the text under the cache key of an existing lesson L is no
\* JSON, no object, or an object that lacks one of the keys lesson, course
\* and text_html, get_lesson_data(L) raises nothing, returns the triple of
\* the database and overwrites the entry with the bundle of that triple;
\* for a lesson the database lacks it returns the absent triple.
C12_CorruptEntryIsMiss ==
    [][\A l \in LessonIds :
        (/\ Handles("get_lesson_data", l, "")
         /\ redis_up
         /\ LessonKey(l) \in DOMAIN redis_store
         /\ IsCorruptEntry(redis_store[LessonKey(l)].value))
        => IF lessons[l] # None
           THEN /\ last'.status = 200
                /\ last'.source = "db"
                /\ last'.result[1] # None
                /\ last'.result[1].title = lessons[l].title
                /\ last'.result[1].text_content = lessons[l].text_content
                /\ last'.result[2].title = courses[lessons[l].course_id].title
                /\ LessonKey(l) \in DOMAIN redis_store'
                /\ HoldsBundle(redis_store'[LessonKey(l)].value,
                               last'.result)
           ELSE /\ last'.status = 404
                /\ last'.result = <<None, None, None>>]_vars

C12_Witness ==
    \E l \in LessonIds :
        /\ Was(last, "get_lesson_data", l, "")
        /\ last.redis_ok
        /\ IsCorruptEntry(last.seen)
        /\ last.seen = <<"{", "\"", "lesson", "\"", ":", "null", "}">>
        /\ last.source = "db"
        /\ last.result[1] # None
        /\ LessonKey(l) \in DOMAIN redis_store
        /\ HoldsBundle(redis_store[LessonKey(l)].value, last.result)

\* C13: get_lesson_data, mark_lesson_completed, update_lesson and
\* delete_lesson address the content entry of lesson L by the one key
\* v1:lesson:L, so that the delete of any of them, the store being
\* reachable, leaves no entry under the key get_lesson_data writes.
C13_SingleKeyPerLesson ==
    \A l \in LessonIds :
        (/\ last.lesson_id = l
         /\ last.redis_ok
         /\ \/ last.op = "update_lesson" /\ last.result = Str("updated")
            \/ last.op = "delete_lesson" /\ last.result = Str("deleted")
            \/ last.op = "mark_lesson_completed" /\ last.result = True)
        => LessonKey(l) \notin DOMAIN redis_store

\* C17: when the commit of mark_lesson_completed(L, U) fails, the error
\* reaches the caller, no record is added, the completion entry of (U, L)
\* is not set to "true" and the content entry of L is not deleted: the
\* key-value store is as it was before the call.
C17_CommitFailureLeavesCache ==
    [][\A l \in LessonIds, u \in UserIds :
        (/\ Handles("mark_lesson_completed", l, u)
         /\ ~commit_ok
         /\ lessons[l] # None
         /\ RowsFor(u, l) = {})
        => (/\ last'.result = Raised
            /\ last'.status = 500
            /\ completions' = completions
            /\ (CompletionKey(u, l) \in DOMAIN redis_store'
                   => redis_store'[CompletionKey(u, l)].value # <<"true">>)
            /\ (LessonKey(l) \in DOMAIN redis_store
                   => LessonKey(l) \in DOMAIN redis_store')
            /\ redis_store' = redis_store)]_vars

C17_Witness ==
    \E l \in LessonIds, u \in UserIds :
        /\ Was(last, "mark_lesson_completed", l, u)
        /\ last.result = Raised
        /\ last.redis_ok
        /\ ~commit_ok
        /\ RowsFor(u, l) = {}
        /\ LessonKey(l) \in DOMAIN redis_store
        /\ CompletionKey(u, l) \in DOMAIN redis_store
        /\ redis_store[CompletionKey(u, l)].value = <<"false">>

\* C18: PUT /lessons/{id}/complete answers 404 exactly when the lesson does
\* not exist, 400 exactly when a record of (current user, lesson) exists,
\* and 201 otherwise; the 201 case adds one record of the pair, the 404 and
\* 400 cases leave the table as it was.
C18_CompletionStatusMapping ==
    [][\A l \in LessonIds, u \in UserIds :
        Handles("mark_lesson_completed", l, u)
        => (/\ (last'.status = 404) <=> (lessons[l] = None)
            /\ (last'.status = 400) <=> (RowsFor(u, l) # {})
            /\ (last'.status = 201)
                   <=> (lessons[l] # None /\ RowsFor(u, l) = {})
            /\ (last'.status = 201)
                   => \E r \in completions' :
                          /\ r.user_id = u
                          /\ r.lesson_id = l
                          /\ r \notin completions
                          /\ completions' = completions \cup {r}
            /\ (last'.status \in {404, 400})
                   => completions' = completions)]_vars

\* the keys of the store, before or after the step, other than the two
\* that mark_lesson_completed(lesson_id, user_id) addresses
OtherKeys(user_id, lesson_id) ==
    (DOMAIN redis_store \cup DOMAIN redis_store')
        \ {CompletionKey(user_id, lesson_id), LessonKey(lesson_id)}

\* C19: when mark_lesson_completed(L, U) returns True with the store
\* reachable, then on return the completion entry of (U, L) holds "true",
\* the content cache has no entry for L, and every other entry of the
\* store is as it was: none added, none removed, none rewritten.
C19_CompletionCacheEffects ==
    [][\A l \in LessonIds, u \in UserIds :
        (/\ Handles("mark_lesson_completed", l, u)
         /\ last'.result = True
         /\ redis_up)
        => (/\ CompletionKey(u, l) \in DOMAIN redis_store'
            /\ redis_store'[CompletionKey(u, l)].value = <<"true">>
            /\ LessonKey(l) \notin DOMAIN redis_store'
            /\ \A k \in OtherKeys(u, l) :
                   /\ k \in DOMAIN redis_store
                   /\ k \in DOMAIN redis_store'
                   /\ redis_store'[k] = redis_store[k])]_vars

C19_Witness ==
    \E l \in LessonIds, u \in UserIds, m \in LessonIds :
        /\ m # l
        /\ Was(last, "mark_lesson_completed", l, u)
        /\ last.result = True
        /\ last.redis_ok
        /\ Was(prev, "get_lesson_data", m, "")
        /\ prev.source = "db"
        /\ prev.status = 200
        /\ prev.redis_ok
        /\ CompletionKey(u, l) \in DOMAIN redis_store
        /\ redis_store[CompletionKey(u, l)].value = <<"true">>
        /\ LessonKey(l) \notin DOMAIN redis_store
        /\ LessonKey(m) \in DOMAIN redis_store

\* the configured time to live of the entry under key
TtlOf(key) ==
    IF key \in {LessonKey(l) : l \in LessonIds}
    THEN CACHE_LESSON_EXPIRE_SECONDS
    ELSE CACHE_COMPLETION_EXPIRE_SECONDS

\* C20: every entry of the store was written with the time to live of its
\* kind: no lesson or completion entry is without an expiry, and each has
\* at most its configured time to live left, so it is gone at the latest
\* one time to live after it was written.
C20_EveryEntryExpires ==
    \A k \in DOMAIN redis_store :
        /\ k \in {LessonKey(l) : l \in LessonIds}
               \cup {CompletionKey(u, l) : u \in UserIds, l \in LessonIds}
        /\ redis_store[k].ex # -1
        /\ redis_store[k].ex \in 1..TtlOf(k)

C20_Witness ==
    \E l \in LessonIds, u \in UserIds :
        /\ Was(prev, "get_lesson_data", l, "")
        /\ prev.source = "db"
        /\ prev.status = 200
        /\ prev.redis_ok
        /\ Was(last, "is_lesson_completed", l, u)
        /\ last.source = "db"
        /\ last.redis_ok
        /\ now = CACHE_LESSON_EXPIRE_SECONDS
        /\ redis_up
        /\ redis_store = <<>>

\* the e-mail as the claims speak of it: lower-cased and trimmed
Normalized(email) == strip(lower(email))

\* this step answers a POST /auth/register that came with email
AnswersRegister(email) ==
    /\ last'.op = "register_form"
    /\ last'.email = email
    /\ \/ nreq' = nreq + 1 /\ tasks' = tasks
       \/ \E t \in DOMAIN tasks :
              /\ tasks[t].op = "register_form"
              /\ tasks[t].email = email
              /\ tasks'[t] = Idle

\* C14: whatever the sequence or interleaving of POST /auth/register
\* requests, there is at most one User per normalized e-mail; and a
\* registration answered while a User with its normalized e-mail exists
\* redirects to /auth/register with a flash_error cookie, sets no
\* access_token and leaves the table users unchanged.
C14_UniqueEmail ==
    /\ [](\A u1, u2 \in users :
              Normalized(u1.email) = Normalized(u2.email) => u1 = u2)
    /\ [][\A e \in EmailInputs :
            (/\ AnswersRegister(e)
             /\ \E u \in users : Normalized(u.email) = Normalized(e))
            => (/\ last'.location = Str("/auth/register")
                /\ last'.status = 303
                /\ "flash_error" \in DOMAIN last'.cookies
                /\ "access_token" \notin DOMAIN last'.cookies
                /\ users' = users)]_vars

\* two registrations of one e-mail interleaved: both found no user, the
\* first was committed, the second ran into the unique index
C14_Witness ==
    /\ prev.op = "register_form"
    /\ prev.email = <<"b">>
    /\ "access_token" \in DOMAIN prev.cookies
    /\ last.op = "register_form"
    /\ last.email = <<"b">>
    /\ "flash_error" \in DOMAIN last.cookies
    /\ last.cookies["flash_error"] = Str("registration failed")
    /\ "access_token" \notin DOMAIN last.cookies
    /\ nreq = 2
    /\ commit_ok
    /\ Cardinality({u \in users : u.email = <<"b">>}) = 1

\* this step handles a POST /auth/login with username and password
HandlesLogin(username, password) ==
    /\ nreq' = nreq + 1
    /\ last'.op = "login_api"
    /\ last'.email = username
    /\ last'.password = password

\* C15: POST /auth/login redirects to /courses with an access_token cookie
\* if and only if a user with the normalized e-mail exists and the
\* password verifies against the hash of that user; in every other case
\* it redirects to /auth/login with a flash_error cookie and sets no
\* access_token cookie.
C15_LoginOnlyForValidCredentials ==
    [][\A e \in EmailInputs, p \in PasswordInputs :
        HandlesLogin(e, p)
        => LET valid == \E u \in users :
                            /\ u.email = Normalized(e)
                            /\ verify_password(p, u.hashed_password)
               granted == /\ last'.location = Str("/courses")
                          /\ "access_token" \in DOMAIN last'.cookies
           IN  /\ granted <=> valid
               /\ ~valid
                      => (/\ last'.location = Str("/auth/login")
                          /\ "flash_error" \in DOMAIN last'.cookies
                          /\ "access_token" \notin DOMAIN last'.cookies)]_vars

\* a wrong password refused, then the same user let in with the e-mail
\* written in capitals and followed by a blank
C15_Witness ==
    /\ prev.op = "login_api"
    /\ prev.email = <<"a">>
    /\ prev.password = <<"q">>
    /\ prev.location = Str("/auth/login")
    /\ "flash_error" \in DOMAIN prev.cookies
    /\ "access_token" \notin DOMAIN prev.cookies
    /\ last.op = "login_api"
    /\ last.email = <<"A", " ">>
    /\ last.password = <<"p">>
    /\ last.location = Str("/courses")
    /\ "access_token" \in DOMAIN last.cookies
    /\ jwt_decode(last.cookies["access_token"], now).sub = <<"a">>

\* this step handles the request op that came with the access_token cookie
HandlesAuth(op, access_token) ==
    /\ nreq' = nreq + 1
    /\ last'.op = op
    /\ last'.token = access_token

\* the logouts so far that presented the token
Logouts(access_token) == {r \in revoked : r.token = access_token}

\* the instant at which create_access_token made the token
IssuedAt(access_token) ==
    LET parts == Split(access_token, ".")
    IN  CHOOSE n \in NumericDates : ToString(n) = parts[4][1]

\* the request is treated as unauthenticated: decode_token yields no
\* e-mail and get_current_user redirects to the login page
Unauthenticated(access_token) ==
    /\ decode_token(redis_store, redis_up, access_token, now) = None
    /\ last'.status = 307
    /\ last'.location = Str("/auth/login")
    /\ last'.email = None

LogoutResponse ==
    /\ last'.location = Str("/")
    /\ last'.status = 303
    /\ {"access_token", "refresh_token"} \subseteq last'.deleted
    /\ last'.cookies = <<>>

Alone(t) == \A o \in DOMAIN tasks \ {t} : tasks[o] = Idle

\* C24: once mark_lesson_completed(L, U) has returned True and the calls
\* of is_lesson_completed(L, U) that ran beside it have finished, a later
\* is_lesson_completed(L, U) does not answer False from the cache: with
\* the lesson present and the store reachable, its read of the cache is a
\* miss or yields "true".
C24_NoStaleNegative ==
    [][\A t \in DOMAIN tasks :
        (/\ tasks[t].op = "is_lesson_completed"
         /\ tasks[t].pc = "get"
         /\ tasks'[t] # tasks[t]
         /\ Alone(t)
         /\ redis_up
         /\ lessons[tasks[t].lesson_id] # None
         /\ RowsFor(tasks[t].user_id, tasks[t].lesson_id) # {})
        => (/\ tasks'[t].pc \in {"done", "select"}
            /\ tasks'[t].pc = "done" => tasks'[t].result = True)]_vars

\* C25: whatever the interleaving of is_lesson_completed and
\* mark_lesson_completed calls, a completion entry that holds "true" is
\* the entry of a pair with a record in lesson_completions.
C25_NoFalsePositive ==
    \A l \in LessonIds, u \in UserIds :
        (/\ CompletionKey(u, l) \in DOMAIN redis_store
         /\ redis_store[CompletionKey(u, l)].value = <<"true">>)
        => RowsFor(u, l) # {}

\* a reader that found the record wrote "true" while a writer for another
\* user on the same lesson was at its commit
C25_Witness ==
    \E l \in LessonIds, u \in UserIds, t, o \in DOMAIN tasks :
        /\ tasks[t].op = "is_lesson_completed"
        /\ tasks[t].lesson_id = l
        /\ tasks[t].user_id = u
        /\ tasks[t].pc = "done"
        /\ tasks[t].result = True
        /\ tasks[o].op = "mark_lesson_completed"
        /\ tasks[o].lesson_id = l
        /\ tasks[o].user_id # u
        /\ tasks[o].pc = "commit"
        /\ CompletionKey(u, l) \in DOMAIN redis_store
        /\ redis_store[CompletionKey(u, l)].value = <<"true">>
        /\ Cardinality(RowsFor(u, l)) = 1

IsOpen(id) == \E x \in sessions : x.id = id /\ x.open

IsClosed(id) == \E x \in sessions : x.id = id /\ ~x.open

\* C21: every session that a request acquired through get_db is closed in
\* the end, whether the handler returned or raised, and no session is used
\* by two requests.
C21_RequestScopedSessions ==
    /\ \A id \in 1..MaxSessionRequests : IsOpen(id) ~> IsClosed(id)
    /\ [](\A x \in sessions : Cardinality(x.used_by) <= 1)

\* the session of a request whose handler raised is closed, while the
\* session of another request is in use
C21_Witness ==
    \E x, y \in sessions :
        /\ last.op = "get_db"
        /\ last.result = Raised
        /\ last.status = 500
        /\ ~x.open
        /\ Cardinality(x.used_by) = 1
        /\ y.open
        /\ Cardinality(y.used_by) = 1
        /\ x.used_by # y.used_by

\* C30: after any sequence of create_lesson, update_lesson and
\* delete_lesson requests, every lesson with a video_path refers to a
\* file that is present in the storage.
C30_ReferencedFilesSurvive ==
    \A l \in LessonIds :
        (lessons[l] # None /\ Truthy(lessons[l].video_path))
        => lessons[l].video_path \in files

\* C26: after update_course has changed the title of a course, the next
\* get_lesson_data for a lesson of that course returns a course summary
\* with the new title, also when the bundle of the lesson was cached
\* before.
C26_CourseRenameReachesLessons ==
    [][\A l \in LessonIds :
        (/\ last.op = "update_course"
         /\ last.status = 303
         /\ Handles("get_lesson_data", l, "")
         /\ lessons[l] # None
         /\ lessons[l].course_id = last.course_id)
        => (/\ last'.result[2] # None
            /\ last'.result[2].title = last.title
            /\ last'.result[2].title = courses[last.course_id].title)]_vars

\* C27: after delete_course has removed a course and its lessons,
\* get_lesson_data for a lesson that was of that course returns
\* (None, None, None), also when the bundle of the lesson was cached
\* before.
C27_CourseDeleteHidesLessons ==
    [][\A l \in LessonIds :
        (/\ last.op = "delete_course"
         /\ last.status = 303
         /\ l \in last.lessons
         /\ Handles("get_lesson_data", l, ""))
        => (/\ lessons[l] = None
            /\ last'.result = <<None, None, None>>)]_vars

-----------------------------------------------------------------------------
(* Administration only for administrators *)

\* the handlers of the administration that change something
AdminOps ==
    {"create_course_form", "update_course", "delete_course",
     "create_lesson", "update_lesson", "delete_lesson"}

\* the token names a user who is no administrator, and is valid now
AuthenticatedNonAdmin(access_token) ==
    LET u == get_current_user(redis_store, redis_up, users, access_token,
                              now)
    IN  u.status = 200 /\ ~u.user.is_admin

\* C22: a handler of the administration that changes something runs only
\* for a request whose dependency returned a user with is_admin set; the
\* request of an authenticated user without is_admin ends with 403 and
\* leaves courses, lessons, files and the cache as they were, and no
\* handler follows it
C22_AdminOnly ==
    /\ [](last.op \in AdminOps
             => /\ prev.op = "require_admin" /\ prev.status = 200
                /\ select_user(users, prev.email) # None
                /\ select_user(users, prev.email).is_admin)
    /\ [][\A a \in Presented :
             (HandlesAuth("require_admin", a) /\ AuthenticatedNonAdmin(a))
             => /\ last'.status = 403
                /\ UNCHANGED <<courses, lessons, files, redis_store>>]_vars
    /\ [][(last.op = "require_admin" /\ last.status = 403)
             => last'.op \notin AdminOps]_vars

\* a handler ran for the administrator and changed the database, and then
\* the registered visitor's request to the administration was answered 403
C22_Witness ==
    /\ prev.op \in AdminOps /\ prev.status = 303
    /\ last.op = "require_admin" /\ last.status = 403
    /\ last.email = <<"b">>
    /\ last.token \in held

-----------------------------------------------------------------------------
(* The notes of a user *)

\* the notes that have the id, belong to the lesson and are the user's
OwnNotes(note_id, lesson_id, user_id) ==
    {n \in notes : /\ n.id = note_id /\ n.lesson_id = lesson_id
                   /\ n.user_id = user_id}

\* this step handles the request op for the note of the lesson, sent by
\* the user
HandlesNote(op, lesson_id, note_id, user_id) ==
    /\ Handles(op, lesson_id, user_id)
    /\ last'.note_id = note_id

\* C23: update_note and delete_note change or remove no note but the one
\* that has the id of the path, belongs to the lesson of the path and is
\* the current user's; when there is no such note the response is 404 and
\* the table notes is as it was
C23_NoteOwnership ==
    [][\A l \in LessonIds, n \in NoteIds, u \in UserIds :
          (HandlesNote("update_note", l, n, u)
               \/ HandlesNote("delete_note", l, n, u))
          => /\ \A x \in notes \ OwnNotes(n, l, u) : x \in notes'
             /\ notes' \ notes \subseteq
                    {[x EXCEPT !.content = last'.content] :
                        x \in OwnNotes(n, l, u)}
             /\ OwnNotes(n, l, u) = {}
                    => last'.status = 404 /\ notes' = notes]_vars

\* a user asked to change or delete the note of the other user, under the
\* lesson the note belongs to, and was answered 404
C23_Witness ==
    /\ last.op \in {"update_note", "delete_note"}
    /\ last.status = 404
    /\ \E x \in notes : /\ x.id = last.note_id
                        /\ x.lesson_id = last.lesson_id
                        /\ x.user_id # last.user_id

-----------------------------------------------------------------------------
(* The progress on the profile *)

\* C28: the completed_lessons that GET /api/profile_data reports is at most
\* the total_lessons it reports, after any interleaving of creating,
\* deleting and completing lessons
C28_ProgressBounded ==
    last.op = "get_profile_data_api"
        => last.completed_lessons <= last.total_lessons

-----------------------------------------------------------------------------
(* Logging out and the refresh token *)

\* the response hands out a token
HandsOutTokens(response) ==
    \/ "access_token" \in DOMAIN response.cookies
    \/ "refresh_token" \in DOMAIN response.cookies

====
